---- MODULE Spec2Model ----
(***************************************************************************)
(* A model of the orchestration core of Prodigy: Orchestrator.run and its  *)
(* helpers (src/core/orchestrator.py), ChiefOfStaff.synthesize and the     *)
(* conflict detector (src/core/chief_of_staff.py), DevilsAdvocate.challenge*)
(* (src/core/devils_advocate.py), BaseAgent._call_llm / analyze            *)
(* (src/core/base_agent.py) and the five summarize methods (src/agents).   *)
(*                                                                         *)
(* Python dicts are functions from string keys to values; dict.get is Get. *)
(* Scores are fixed-point numbers in hundredths (8.5 is 850); texts are    *)
(* strings, searched and rewritten character by character.                 *)
(***************************************************************************)
EXTENDS Integers, Sequences, FiniteSets, TLC

(***************************************************************************)
(* Python string helpers                                                   *)
(***************************************************************************)

UpperAlpha == "ABCDEFGHIJKLMNOPQRSTUVWXYZ"

LowerAlpha == "abcdefghijklmnopqrstuvwxyz"

\* str.lower() of one character
LowerChar(c) ==
    IF \E i \in 1..Len(UpperAlpha) : SubSeq(UpperAlpha, i, i) = c
    THEN LET i == CHOOSE j \in 1..Len(UpperAlpha) : SubSeq(UpperAlpha, j, j) = c
         IN  SubSeq(LowerAlpha, i, i)
    ELSE c

\* str.lower() of a string value: character by character, from the left
LowerOf ==
    [t \in STRING |->
        LET lowered[i \in 0..Len(t)] ==
                IF i = 0 THEN "" ELSE lowered[i - 1] \o LowerChar(SubSeq(t, i, i))
        IN  lowered[Len(t)]]

\* str.lower()
Lower(s) == LowerOf[s]

\* str.strip() of a string value: from the first to the last character that
\* is not a space
StripOf ==
    [t \in STRING |->
        LET kept == {i \in 1..Len(t) : SubSeq(t, i, i) # " "}
        IN  IF kept = {} THEN ""
            ELSE SubSeq(t, CHOOSE i \in kept : \A j \in kept : i <= j,
                           CHOOSE i \in kept : \A j \in kept : j <= i)]

\* str.strip()
Strip(s) == StripOf[s]

\* str.replace(pat, "") of string values: left-to-right, non-overlapping;
\* rest[i] is what is kept of t from position i on
RemoveOf ==
    [t \in STRING, pat \in STRING |->
        LET rest[i \in 1..(Len(t) + 1)] ==
                IF Len(t) - i + 1 < Len(pat) THEN SubSeq(t, i, Len(t))
                ELSE IF SubSeq(t, i, i + Len(pat) - 1) = pat
                     THEN rest[i + Len(pat)]
                     ELSE SubSeq(t, i, i) \o rest[i + 1]
        IN  rest[1]]

\* str.replace(pat, "")
Remove(s, pat) == RemoveOf[s, pat]

\* `k in s` for strings
Contains(s, k) ==
    \E i \in 1..(Len(s) - Len(k) + 1) : SubSeq(s, i, i + Len(k) - 1) = k

(***************************************************************************)
(* Python dict helpers                                                     *)
(***************************************************************************)

\* d.get(k, default)
Get(d, k, default) == IF k \in DOMAIN d THEN d[k] ELSE default

\* d[k] = v
SetKey(d, k, v) == [x \in (DOMAIN d) \cup {k} |-> IF x = k THEN v ELSE d[x]]

\* d.setdefault(k, v)
SetDefault(d, k, v) == IF k \in DOMAIN d THEN d ELSE SetKey(d, k, v)

\* seq[:n]
Take(seq, n) == SubSeq(seq, 1, IF Len(seq) < n THEN Len(seq) ELSE n)

\* The empty dict {} and the value None.  Both are falsy in Python.
EmptyDict == [x \in {} |-> 0]

None == [none |-> TRUE]

(***************************************************************************)
(* The five specialists                                                    *)
(***************************************************************************)

\* the order of the keys of all_reports / all_summaries / vp_names
VPOrder == <<"market", "tech", "revenue", "ops", "product">>

VPs == {VPOrder[i] : i \in 1..Len(VPOrder)}

\* agent_name passed to BaseAgent.__init__ by each specialist
AgentName(vp) ==
    CASE vp = "market"  -> "VP of Market & Strategy"
      [] vp = "tech"    -> "VP of Engineering"
      [] vp = "revenue" -> "VP of Revenue & Growth"
      [] vp = "ops"     -> "VP of Operations & Delivery"
      [] vp = "product" -> "VP of Product & UX"

\* float(x) of a numeric score: the same number, here in hundredths
Float(x) == x

\* JSON null (Python's None) as the value of a score field, encoded as an
\* integer that no score can be
JsonNull == -1

\* float(None) raises TypeError
FloatRaises(x) == x = JsonNull

\* the outcome of a summarize call that raised
Raised == [raised |-> "TypeError"]

\* (mutant) the thresholds taken as exclusive: score > 8, > 6, > 4, else
Tier_Exclusive(score) ==
    IF score > 800 THEN 4
    ELSE IF score > 600 THEN 3
    ELSE IF score > 400 THEN 2
    ELSE 1

\* the if/elif chain of every summarize: score >= 8, >= 6, >= 4, else
Tier(score) ==
    IF score >= 800 THEN 4
    ELSE IF score >= 600 THEN 3
    ELSE IF score >= 400 THEN 2
    ELSE 1

\* (mutant) a missing score is summarized as 5.0
MarketVP_summarize_DefaultFive(market_report) ==
    LET score   == Float(Get(market_report, "score", 500))
        summary == Get(market_report, "summary", "")
        risks   == Get(market_report, "risks", <<>>)
        decision ==
            CASE Tier(score) = 4 -> "Strong bootstrap opportunity - Clear path to profitability"
              [] Tier(score) = 3 -> "Viable with hustle - Bootstrappable but requires execution"
              [] Tier(score) = 2 -> "Challenging - Requires pivots or additional resources"
              [] OTHER           -> "Not bootstrappable - Consider alternative approaches"
    IN  [market_score    |-> score,
         market_decision |-> decision,
         market_summary  |-> summary,
         top_risks       |-> Take(risks, 3)]

MarketVP_summarize(market_report) ==
    LET score   == Float(Get(market_report, "score", 0))
        summary == Get(market_report, "summary", "")
        risks   == Get(market_report, "risks", <<>>)
        decision ==
            CASE Tier(score) = 4 -> "Strong bootstrap opportunity - Clear path to profitability"
              [] Tier(score) = 3 -> "Viable with hustle - Bootstrappable but requires execution"
              [] Tier(score) = 2 -> "Challenging - Requires pivots or additional resources"
              [] OTHER           -> "Not bootstrappable - Consider alternative approaches"
    IN  [market_score    |-> score,
         market_decision |-> decision,
         market_summary  |-> summary,
         top_risks       |-> Take(risks, 3)]

\* `x or default` for a list or dict value (the empty list and the empty
\* dict are both the empty function)
OrElse(x, default) == IF x = <<>> THEN default ELSE x

\* `x or default` for a string value
StrOrElse(x, default) == IF x = "" THEN default ELSE x

TechVP_summarize(tech_report) ==
    LET score   == Float(Get(tech_report, "score", 0))
        summary == Get(tech_report, "summary", "")
        details == OrElse(Get(tech_report, "details", EmptyDict), EmptyDict)
        architecture == OrElse(Get(details, "architecture", EmptyDict), EmptyDict)
        high_level_components == OrElse(Get(architecture, "high_level_components", <<>>), <<>>)
        models_and_services   == OrElse(Get(architecture, "models_and_services", <<>>), <<>>)
        top_risks == OrElse(Get(tech_report, "top_risks", <<>>), <<>>)
        decision ==
            CASE Tier(score) = 4 -> "Ship this fast - MVP achievable in timeline"
              [] Tier(score) = 3 -> "Shippable with focus - Ruthless scope cuts needed"
              [] Tier(score) = 2 -> "Challenging but possible - Significant scope reduction required"
              [] OTHER           -> "Difficult to ship quickly - Consider simpler MVP or longer timeline"
    IN  [tech_score     |-> score,
         tech_decision  |-> decision,
         tech_summary   |-> summary,
         suggested_architecture |->
             [high_level_components |-> high_level_components,
              main_dependencies     |-> models_and_services],
         top_tech_risks |-> Take(top_risks, 3)]

RevenueVP_summarize(revenue_report) ==
    LET score   == Float(Get(revenue_report, "score", 0))
        summary == Get(revenue_report, "summary", "")
        details == OrElse(Get(revenue_report, "details", EmptyDict), EmptyDict)
        business_model == OrElse(Get(details, "business_model", EmptyDict), EmptyDict)
        pricing == OrElse(Get(details, "pricing_strategy", EmptyDict), EmptyDict)
        growth  == OrElse(Get(details, "growth_channels", EmptyDict), EmptyDict)
        monetization_summary == Get(business_model, "description", "")
        price_points == OrElse(Get(pricing, "price_points", <<>>), <<>>)
        suggested_model == Get(pricing, "suggested_model", "")
        primary_channels   == OrElse(Get(growth, "primary_channels", <<>>), <<>>)
        secondary_channels == OrElse(Get(growth, "secondary_channels", <<>>), <<>>)
        top_risks == OrElse(Get(revenue_report, "top_risks", <<>>), <<>>)
        decision ==
            CASE Tier(score) = 4 -> "Strong bootstrap revenue model - Clear path to profitability"
              [] Tier(score) = 3 -> "Solid monetization potential - Requires validation and execution"
              [] Tier(score) = 2 -> "Challenging revenue model - Significant validation needed"
              [] OTHER           -> "Weak monetization path - Rethink pricing or business model"
    IN  [revenue_score        |-> score,
         revenue_decision     |-> decision,
         monetization_summary |-> StrOrElse(monetization_summary, summary),
         suggested_pricing    |-> [model |-> suggested_model, price_points |-> price_points],
         key_growth_channels  |-> [primary |-> primary_channels, secondary |-> secondary_channels],
         top_revenue_risks    |-> Take(top_risks, 3)]

OperationsVP_summarize(ops_report) ==
    LET score   == Float(Get(ops_report, "score", 0))
        summary == Get(ops_report, "summary", "")
        details == OrElse(Get(ops_report, "details", EmptyDict), EmptyDict)
        scalability == OrElse(Get(details, "scalability_and_maintenance", EmptyDict), EmptyDict)
        support_hours == Get(scalability, "post_launch_support_hours_per_week", 0)
        top_risks == OrElse(Get(ops_report, "top_risks", <<>>), <<>>)
        decision ==
            CASE Tier(score) = 4 -> "Operationally simple - Solo founder can sustain long-term"
              [] Tier(score) = 3 -> "Manageable operations - Some burden but sustainable"
              [] Tier(score) = 2 -> "Challenging operations - May need help or significant automation"
              [] OTHER           -> "Operationally complex - Difficult to run solo"
    IN  [ops_score     |-> score,
         ops_decision  |-> decision,
         ops_summary   |-> summary,
         weekly_maintenance_hours |-> support_hours,
         top_ops_risks |-> Take(top_risks, 3)]

ProductUXVP_summarize(product_report) ==
    LET score   == Float(Get(product_report, "score", 0))
        summary == Get(product_report, "summary", "")
        details == OrElse(Get(product_report, "details", EmptyDict), EmptyDict)
        pmf_readiness == OrElse(Get(details, "pmf_readiness", EmptyDict), EmptyDict)
        usability == Float(Get(pmf_readiness, "usability_score", 0))
        delight   == Float(Get(pmf_readiness, "delight_score", 0))
        ux_risks  == OrElse(Get(pmf_readiness, "ux_risks", <<>>), <<>>)
        top_risks == OrElse(Get(product_report, "top_risks", <<>>), <<>>)
        decision ==
            CASE Tier(score) = 4 -> "Strong product-market fit potential - Users will love this"
              [] Tier(score) = 3 -> "Good validation readiness - Solid UX foundation"
              [] Tier(score) = 2 -> "Needs UX improvements - Functional but risky"
              [] OTHER           -> "UX concerns - May struggle with adoption"
    IN  [product_score    |-> score,
         product_decision |-> decision,
         product_summary  |-> summary,
         usability_score  |-> usability,
         delight_score    |-> delight,
         top_ux_risks     |-> Take(ux_risks \o top_risks, 3)]

\* vp_agent.summarize(report), dispatched on the specialist
Summarize(vp, report) ==
    IF FloatRaises(Get(report, "score", 0))
    THEN Raised
    ELSE CASE vp = "market"  -> MarketVP_summarize(report)
           [] vp = "tech"    -> TechVP_summarize(report)
           [] vp = "revenue" -> RevenueVP_summarize(report)
           [] vp = "ops"     -> OperationsVP_summarize(report)
           [] vp = "product" -> ProductUXVP_summarize(report)

(***************************************************************************)
(* The requests of the specialists: build_user_prompt.  A request is the   *)
(* record of what the prompt states.                                       *)
(***************************************************************************)

\* the head of every normal prompt: title, idea, constraints and goals
BriefPrompt(title, project_brief) ==
    LET constraints == Get(project_brief, "constraints", EmptyDict)
        goals       == Get(project_brief, "goals", EmptyDict)
    IN  [title       |-> title,
         idea_name   |-> Get(project_brief, "idea_name", "Unnamed"),
         description |-> Get(project_brief, "description", "No description provided"),
         target_user |-> Get(project_brief, "target_user", "Not specified"),
         budget      |-> Get(constraints, "build_budget_usd", "Not specified"),
         weeks       |-> Get(constraints, "build_time_weeks", "Not specified"),
         objective   |-> Get(goals, "objective", "Not specified"),
         timeline    |-> Get(goals, "time_horizon_months", "Not specified")]

\* the prompts of Market, Tech, Revenue and Ops never read `context`
MarketVP_build_user_prompt(project_brief, context) ==
    BriefPrompt("Startup Idea to Validate (Bootstrap Lens)", project_brief)

TechVP_build_user_prompt(project_brief, context) ==
    BriefPrompt("Startup Idea to Validate (Ship Fast Lens)", project_brief)

RevenueVP_build_user_prompt(project_brief, context) ==
    BriefPrompt("Startup Idea to Monetize (Bootstrap Revenue Lens)", project_brief)

OperationsVP_build_user_prompt(project_brief, context) ==
    BriefPrompt("Startup Idea to Evaluate (Operations & Delivery Lens)", project_brief)

\* `if x` for a context or a dict: None and {} are falsy
Truthy(x) == x # None /\ x # EmptyDict

\* _build_normal_prompt of Product: the head and what it takes from Market
ProductUXVP_build_normal_prompt(project_brief, context) ==
    LET market_details == Get(context, "market_details", EmptyDict)
        target_user    == Get(market_details, "target_user_profile", EmptyDict)
        persona        == Get(target_user, "persona", "")
        pain_points    == Get(target_user, "key_pain_points", <<>>)
        som_focus      == Get(Get(market_details, "tam_sam_som", EmptyDict), "som_focus", "")
        from_market ==
            IF Truthy(context)
               /\ ("market_summary" \in DOMAIN context \/ "market_details" \in DOMAIN context)
            THEN (IF "market_summary" \in DOMAIN context
                  THEN "Market Summary" :> context["market_summary"] ELSE EmptyDict)
                 @@ (IF persona # "" THEN "Target Persona" :> persona ELSE EmptyDict)
                 @@ (IF pain_points # <<>>
                     THEN "Key Pain Points" :> Take(pain_points, 3) ELSE EmptyDict)
                 @@ (IF som_focus # ""
                     THEN "First Customers Strategy" :> som_focus ELSE EmptyDict)
            ELSE EmptyDict
    IN  BriefPrompt("Startup Idea to Evaluate (Product & UX Lens)", project_brief)
        @@ ("context_from_other_vps" :> from_market)

\* _build_clarification_prompt of Product
ProductUXVP_build_clarification_prompt(project_brief, context) ==
    [title           |-> "Clarification Request",
     idea_name       |-> Get(project_brief, "idea_name", None),
     description     |-> Get(project_brief, "description", None),
     original_report |-> Get(context, "original_report", EmptyDict),
     question        |-> Get(context, "question", "")]

\* _build_reanalysis_prompt of Product
ProductUXVP_build_reanalysis_prompt(project_brief, context) ==
    [title           |-> "Re-Analysis Request (Devil's Advocate Challenge)",
     idea_name       |-> Get(project_brief, "idea_name", None),
     description     |-> Get(project_brief, "description", None),
     target_user     |-> Get(project_brief, "target_user", None),
     previous_report |-> Get(context, "previous_report", EmptyDict),
     guidance        |-> Get(context, "devils_advocate_guidance", "")]

\* build_user_prompt of Product: the only one with three modes
ProductUXVP_build_user_prompt(project_brief, context) ==
    IF Truthy(context) /\ Get(context, "is_clarification", FALSE)
    THEN ProductUXVP_build_clarification_prompt(project_brief, context)
    ELSE IF Truthy(context) /\ Get(context, "is_re_analysis", FALSE)
    THEN ProductUXVP_build_reanalysis_prompt(project_brief, context)
    ELSE ProductUXVP_build_normal_prompt(project_brief, context)

\* self.build_user_prompt(project_brief, context) of analyze, dispatched on
\* the specialist (Market's analyze adds nothing: use_grok is off)
BuildUserPrompt(vp, project_brief, context) ==
    CASE vp = "market"  -> MarketVP_build_user_prompt(project_brief, context)
      [] vp = "tech"    -> TechVP_build_user_prompt(project_brief, context)
      [] vp = "revenue" -> RevenueVP_build_user_prompt(project_brief, context)
      [] vp = "ops"     -> OperationsVP_build_user_prompt(project_brief, context)
      [] vp = "product" -> ProductUXVP_build_user_prompt(project_brief, context)

(***************************************************************************)
(* Orchestrator: aggregation, decision, Challenger trigger, names          *)
(***************************************************************************)

RECURSIVE SeqSum(_)
SeqSum(seq) == IF seq = <<>> THEN 0 ELSE Head(seq) + SeqSum(Tail(seq))

SeqMax(seq) == CHOOSE m \in {seq[i] : i \in 1..Len(seq)} :
                   \A i \in 1..Len(seq) : seq[i] <= m

SeqMin(seq) == CHOOSE m \in {seq[i] : i \in 1..Len(seq)} :
                   \A i \in 1..Len(seq) : m <= seq[i]

\* (mutant) the mean truncated, not rounded
RoundMean5_Truncated(total) == total \div 5

\* round(total / 5.0, 2) for a total in hundredths: the nearest hundredth of
\* total / 5 (total / 5 is never half-way between two hundredths)
RoundMean5(total) == (2 * total + 5) \div 10

\* the five scores read from the summaries, in the order of the code
SummaryScores(sums) ==
    << Float(Get(sums["market"],  "market_score",  0)),
       Float(Get(sums["tech"],    "tech_score",    0)),
       Float(Get(sums["revenue"], "revenue_score", 0)),
       Float(Get(sums["ops"],     "ops_score",     0)),
       Float(Get(sums["product"], "product_score", 0)) >>

\* overall_score = round((m + t + r + o + p) / 5.0, 2)
OverallScore(scores) == RoundMean5(SeqSum(scores))

\* score_variance = max(scores) - min(scores)
ScoreVariance(scores) == SeqMax(scores) - SeqMin(scores)

\* (mutant) the thresholds compared with > in place of >=
OverallDecision_Strict(overall_score) ==
    IF overall_score > 800
    THEN "Proceed with MVP (strong across all dimensions)"
    ELSE IF overall_score > 600
    THEN "Proceed with focused execution (solid opportunity with manageable risks)"
    ELSE IF overall_score > 400
    THEN "Proceed with caution (significant challenges, consider pivots)"
    ELSE "Do not proceed in current form (major risks across multiple dimensions)"

\* the decision logic of Orchestrator.run
OverallDecision(overall_score) ==
    IF overall_score >= 800
    THEN "Proceed with MVP (strong across all dimensions)"
    ELSE IF overall_score >= 600
    THEN "Proceed with focused execution (solid opportunity with manageable risks)"
    ELSE IF overall_score >= 400
    THEN "Proceed with caution (significant challenges, consider pivots)"
    ELSE "Do not proceed in current form (major risks across multiple dimensions)"

\* the uncertainty keywords of _should_run_devils_advocate
UncertaintyWords == {"uncertain", "unclear", "validation needed", "needs testing"}

\* (mutant) the overall threshold compared with <= in place of <
ShouldRunDevilsAdvocate_Inclusive(overall_score, score_variance, cos_rep) ==
    IF overall_score <= 750 THEN TRUE
    ELSE IF score_variance > 300 THEN TRUE
    ELSE LET cos_verdict == Lower(Get(cos_rep, "overall_verdict", ""))
         IN  \E word \in UncertaintyWords : Contains(cos_verdict, word)

ShouldRunDevilsAdvocate(overall_score, score_variance, cos_rep) ==
    IF overall_score < 750 THEN TRUE
    ELSE IF score_variance > 300 THEN TRUE
    ELSE LET cos_verdict == Lower(Get(cos_rep, "overall_verdict", ""))
         IN  \E word \in UncertaintyWords : Contains(cos_verdict, word)

\* (mutant) a mapping that knows the five canonical keys only
VPNameMapping_CanonicalOnly ==
    [market |-> "market", tech |-> "tech", revenue |-> "revenue",
     ops |-> "ops", product |-> "product"]

\* vp_name_mapping of _normalize_vp_name
VPNameMapping ==
    [market |-> "market", tech |-> "tech", technology |-> "tech",
     revenue |-> "revenue", ops |-> "ops", operations |-> "ops",
     product |-> "product"]
    @@ ("product & ux" :> "product") @@ ("product and ux" :> "product")
    @@ ("ux" :> "product")

\* (mutant) the name looked up without removing its "vp" suffix
NormalizeVPName_NoSuffix(vp_name) ==
    LET lowered == Strip(Lower(vp_name))
    IN  IF lowered \in DOMAIN VPNameMapping THEN VPNameMapping[lowered] ELSE ""

\* _normalize_vp_name: a canonical key, or "" for Python's None
NormalizeVPName(vp_name) ==
    LET lowered  == Strip(Lower(vp_name))
        stripped == Strip(Remove(Remove(lowered, " vp"), "vp"))
    IN  IF stripped \in DOMAIN VPNameMapping THEN VPNameMapping[stripped] ELSE ""

(***************************************************************************)
(* ChiefOfStaff: the conflict detector                                     *)
(***************************************************************************)

RECURSIVE FirstBest(_, _, _)
\* max(scores, key=...) / min(scores, key=...): the first entry that no later
\* entry beats; better(a, b) is a > b for max and a < b for min
FirstBest(entries, i, best) ==
    IF i > Len(entries) THEN best
    ELSE FirstBest(entries, i + 1,
                   IF (best[3] = "max" /\ entries[i][2] > best[2])
                      \/ (best[3] = "min" /\ entries[i][2] < best[2])
                   THEN <<entries[i][1], entries[i][2], best[3]>>
                   ELSE best)

RECURSIVE TruthyScores(_, _)
\* the (key, score) pairs of the summaries whose score is truthy (`if score:`)
TruthyScores(dimensions, i) ==
    IF i > Len(VPOrder) THEN <<>>
    ELSE LET key   == VPOrder[i]
             score == Get(Get(dimensions, key, EmptyDict), key \o "_score", 0)
         IN  (IF score # 0 THEN << <<key, score>> >> ELSE <<>>)
             \o TruthyScores(dimensions, i + 1)

\* (mutant) a summary that holds a clarification is no longer read
DetectConflicts_Unclarified(dimensions) ==
    LET open == [vp \in {v \in DOMAIN dimensions : "clarification" \notin DOMAIN dimensions[v]}
                    |-> dimensions[vp]]
        tech_summary    == Lower(Get(Get(open, "tech", EmptyDict), "tech_summary", ""))
        product_summary == Lower(Get(Get(open, "product", EmptyDict), "product_summary", ""))
        cli == IF Contains(tech_summary, "cli")
                  /\ (Contains(product_summary, "web") \/ Contains(product_summary, "ui"))
               THEN << [kind |-> "cli_vs_ui"] >>
               ELSE <<>>
        scores == TruthyScores(open, 1)
        spread ==
            IF scores # <<>>
            THEN LET mx == FirstBest(scores, 2, <<scores[1][1], scores[1][2], "max">>)
                     mn == FirstBest(scores, 2, <<scores[1][1], scores[1][2], "min">>)
                 IN  IF mx[2] - mn[2] > 300
                     THEN << [kind |-> "score_spread"] >>
                     ELSE <<>>
            ELSE <<>>
    IN  cli \o spread

\* _detect_conflicts: the list `conflicts`; the method returns its entries
\* joined by "; ", which is the empty string exactly when the list is empty
DetectConflicts(dimensions) ==
    LET tech_summary    == Lower(Get(Get(dimensions, "tech", EmptyDict), "tech_summary", ""))
        product_summary == Lower(Get(Get(dimensions, "product", EmptyDict), "product_summary", ""))
        cli == IF Contains(tech_summary, "cli")
                  /\ (Contains(product_summary, "web") \/ Contains(product_summary, "ui"))
               THEN << [kind |-> "cli_vs_ui"] >>
               ELSE <<>>
        scores == TruthyScores(dimensions, 1)
        spread ==
            IF scores # <<>>
            THEN LET mx == FirstBest(scores, 2, <<scores[1][1], scores[1][2], "max">>)
                     mn == FirstBest(scores, 2, <<scores[1][1], scores[1][2], "min">>)
                 IN  IF mx[2] - mn[2] > 300
                     THEN << [kind |-> "score_spread", max_vp |-> mx[1], max_score |-> mx[2],
                              min_vp |-> mn[1], min_score |-> mn[2]] >>
                     ELSE <<>>
            ELSE <<>>
    IN  cli \o spread

(***************************************************************************)
(* The external collaborator: what its calls can answer                    *)
(***************************************************************************)

\* attempts of BaseAgent._call_llm (max_retries)
MaxRetries == 3

\* max_queries of ChiefOfStaff.synthesize
MaxQueries == 2

\* names in one vps_to_rerun list (a bound of the model)
MaxRerunLen == 2

\* (mutant) the retry budget is one attempt short
LastAttempt_Early(a) == a + 1 = MaxRetries - 1

\* `if attempt == max_retries - 1` of _call_llm, for an attempt counted from 0
LastAttempt(a) == a + 1 = MaxRetries

\* a parseable specialist payload
Payload(score, text) ==
    [score     |-> score,
     summary   |-> text,
     details   |-> [basis |-> text, points |-> score],
     risks     |-> <<"risk a", "risk b", "risk c", "risk d">>,
     top_risks |-> <<"risk a", "risk b", "risk c", "risk d">>]

\* the payloads a specialist call can return
Payloads ==
    { Payload(900, "CLI first, web UI later"),
      Payload(500, "Solid plan") }

\* the payload a clarification call returns
ClarPayloads == { [summary |-> "Clarified: web UI after the CLI", score |-> 900] }

\* the payloads a synthesis call can return
SynthPayloads ==
    { [overall_verdict |-> "Proceed with the MVP"],
      [overall_verdict |-> "Outlook UNCERTAIN until demand is tested"] }

\* the names a query decision can give
QueryNames == {"tech", "Tech VP"}

\* the payloads a query-decision call can return
DecisionPayloads ==
    { [should_query |-> FALSE, reason |-> "clear enough"],
      [should_query |-> TRUE, reason |-> "no target named"] }
    \cup { [should_query |-> TRUE, vp_name |-> n, question |-> "CLI or web UI first?",
            reason |-> "tension"] : n \in QueryNames }

\* the vps_to_rerun lists the Challenger can return
RerunCandidates ==
    { <<>>, <<"Tech VP", "product">>, <<"Sales", "ops">>,
      <<"tech", "Technology">>, <<"Operations VP", "Sales", "ux">> }

RerunLists == {l \in RerunCandidates : Len(l) <= MaxRerunLen}

\* the payloads a Challenger call can return
ChallengePayloads ==
    { [requires_re_analysis |-> FALSE, vps_to_rerun |-> <<>>, guidance |-> ""] }
    \cup { [requires_re_analysis |-> TRUE, vps_to_rerun |-> l,
            guidance |-> "Validate demand before building"] : l \in RerunLists }

(***************************************************************************)
(* State                                                                   *)
(***************************************************************************)

VARIABLES
    pc,                     \* the position of Orchestrator.run
    attempt,                \* `attempt` of the running BaseAgent._call_llm
    all_reports,            \* the reports, by specialist (None: not yet there)
    all_summaries,          \* the summaries, by specialist (None: not yet there)
    stage_ctx,              \* the context each first-round analyze was given
    started,                \* stages whose external call has been started
    returned,               \* stages whose analyze / synthesize has returned
    overall_score,          \* -1 until aggregated
    overall_decision,
    score_variance,
    cos_report,
    devils_advocate_result,
    turn,                   \* calls of ChiefOfStaff.synthesize so far
    queries_made,           \* `queries_made` of the running synthesize
    query_decision,         \* `query_decision` of the running synthesize
    synth_calls,            \* synthesis calls, by turn
    decision_calls,         \* external decision calls, by turn
    queries_run,            \* calls of query_vp_fn, by turn
    synth_prompt,           \* the user prompt of the last synthesis call (None: no call yet)
    clar_log,               \* the clarification analyze invocations: [vp, context, request]
    challenge_calls,        \* calls of DevilsAdvocate.challenge
    trigger_evals,          \* calls of _should_run_devils_advocate
    rerun_idx,              \* the position of _re_analyze_vps in vps_to_rerun
    updated_reports,        \* `updated_reports` of _re_analyze_vps
    rerun_log,              \* the re-analysis analyze invocations: [vp, context, request]
    before_reports,         \* all_reports when the Challenger returned
    before_summaries,       \* all_summaries when the Challenger returned
    result                  \* what run returned (None: nothing yet)

vars == << pc, attempt, all_reports, all_summaries, stage_ctx, started,
           returned, overall_score, overall_decision, score_variance, cos_report,
           devils_advocate_result, turn, queries_made, query_decision,
           synth_calls, decision_calls, queries_run, synth_prompt, clar_log,
           challenge_calls, trigger_evals, rerun_idx, updated_reports, rerun_log, before_reports,
           before_summaries, result >>

Turns == {1, 2}

Init ==
    /\ pc = "market"
    /\ attempt = 0
    /\ all_reports = [vp \in VPs |-> None]
    /\ all_summaries = [vp \in VPs |-> None]
    /\ stage_ctx = [vp \in VPs |-> None]
    /\ started = {}
    /\ returned = {}
    /\ overall_score = -1
    /\ overall_decision = ""
    /\ score_variance = -1
    /\ cos_report = None
    /\ devils_advocate_result = None
    /\ turn = 0
    /\ queries_made = 0
    /\ query_decision = None
    /\ synth_calls = [t \in Turns |-> 0]
    /\ decision_calls = [t \in Turns |-> 0]
    /\ queries_run = [t \in Turns |-> 0]
    /\ synth_prompt = None
    /\ clar_log = <<>>
    /\ challenge_calls = 0
    /\ trigger_evals = 0
    /\ rerun_idx = 0
    /\ updated_reports = EmptyDict
    /\ rerun_log = <<>>
    /\ before_reports = None
    /\ before_summaries = None
    /\ result = None

(***************************************************************************)
(* Orchestrator.run, rounds 1 to 4: the specialist stages                  *)
(***************************************************************************)

\* the project brief of the run
ProjectBrief ==
    [idea_name   |-> "Prodigy",
     description |-> "AI counsel for founders",
     target_user |-> "Solo founders",
     constraints |-> [build_budget_usd |-> 5000, build_time_weeks |-> 8],
     goals       |-> [objective |-> "First ten paying users", time_horizon_months |-> 6]]

\* project_info of run
ProjectInfo ==
    [idea_name   |-> Get(ProjectBrief, "idea_name", None),
     description |-> Get(ProjectBrief, "description", None)]

\* product_context
ProductContext(reports, sums) ==
    [market_summary |-> sums["market"],
     market_details |-> Get(reports["market"], "details", EmptyDict)]

\* tech_revenue_context
TechRevenueContext(reports, sums) ==
    [market_summary  |-> sums["market"],
     market_details  |-> Get(reports["market"], "details", EmptyDict),
     product_summary |-> sums["product"],
     product_details |-> Get(reports["product"], "details", EmptyDict)]

\* ops_context
OpsContext(reports, sums) ==
    [market_summary  |-> sums["market"],
     product_summary |-> sums["product"],
     tech_summary    |-> sums["tech"],
     revenue_summary |-> sums["revenue"],
     tech_details    |-> Get(reports["tech"], "details", EmptyDict),
     revenue_details |-> Get(reports["revenue"], "details", EmptyDict)]

\* the request of the first-round analyze of a stage, from its context
StageRequest(vp, context) == BuildUserPrompt(vp, ProjectBrief, context)

\* (mutant) Revenue is handed a context that has accumulated Tech's output
RevenueContext_Accumulated(reports, sums) ==
    [market_summary  |-> sums["market"],
     market_details  |-> Get(reports["market"], "details", EmptyDict),
     product_summary |-> sums["product"],
     product_details |-> Get(reports["product"], "details", EmptyDict),
     tech_summary    |-> sums["tech"]]

\* the context argument of the analyze call of each stage
TechContext(reports, sums) == TechRevenueContext(reports, sums)

RevenueContext(reports, sums) == TechRevenueContext(reports, sums)

StageContext(vp, reports, sums) ==
    CASE vp = "market"  -> None
      [] vp = "product" -> ProductContext(reports, sums)
      [] vp = "tech"    -> TechContext(reports, sums)
      [] vp = "revenue" -> RevenueContext(reports, sums)
      [] vp = "ops"     -> OpsContext(reports, sums)

\* (mutant) Tech is run before Product
AfterStage_TechFirst(vp) ==
    CASE vp = "market"  -> "tech"
      [] vp = "tech"    -> "product"
      [] vp = "product" -> "revenue"
      [] vp = "revenue" -> "ops"
      [] vp = "ops"     -> "aggregate"

\* the statement order of run: what follows each stage
AfterStage(vp) ==
    CASE vp = "market"  -> "product"
      [] vp = "product" -> "tech"
      [] vp = "tech"    -> "revenue"
      [] vp = "revenue" -> "ops"
      [] vp = "ops"     -> "aggregate"

\* (mutant) the agent identity is written over the one the payload gives
AgentResult_Overwrite(vp, payload) == SetKey(payload, "agent", AgentName(vp))

\* result.setdefault("agent", self.agent_name) of BaseAgent._call_llm
AgentResult(vp, payload) == SetDefault(payload, "agent", AgentName(vp))

\* the variables of one synthesize turn
synthVars == << turn, queries_made, query_decision, synth_calls, decision_calls,
                queries_run, synth_prompt, clar_log >>

\* the variables of the Challenger and the re-analysis round
challengeVars == << devils_advocate_result, challenge_calls, trigger_evals,
                    rerun_idx, updated_reports, rerun_log, before_reports,
                    before_summaries >>

aggregateVars == << overall_score, overall_decision, score_variance >>

\* One attempt of the external call of a stage's analyze, and, when it
\* returns a payload, the summarize that follows it; the collaborator answers
\* with a payload of `payloads`.  A summarize that raises aborts run.
StageOn(vp, payloads) ==
    /\ pc = vp
    /\ started' = started \cup {vp}
    /\ stage_ctx' = [stage_ctx EXCEPT ![vp] = StageContext(vp, all_reports, all_summaries)]
    /\ \/ /\ attempt' = attempt + 1
          /\ pc' = IF LastAttempt(attempt) THEN "aborted" ELSE pc
          /\ UNCHANGED << all_reports, all_summaries, returned >>
       \/ /\ \E payload \in payloads :
                LET report  == AgentResult(vp, payload)
                    summary == Summarize(vp, report)
                IN  /\ all_reports' = [all_reports EXCEPT ![vp] = report]
                    /\ IF summary = Raised
                       THEN /\ pc' = "aborted"
                            /\ UNCHANGED all_summaries
                       ELSE /\ pc' = AfterStage(vp)
                            /\ all_summaries' = [all_summaries EXCEPT ![vp] = summary]
          /\ returned' = returned \cup {vp}
          /\ attempt' = 0
    /\ UNCHANGED << aggregateVars, cos_report, synthVars, challengeVars, result >>

\* a stage of a run whose collaborator answers with well-formed payloads
Stage(vp) == StageOn(vp, Payloads)

MarketStage == Stage("market")

ProductStage == Stage("product")

TechStage == Stage("tech")

RevenueStage == Stage("revenue")

OpsStage == Stage("ops")

\* the aggregation and the decision logic that follow round 4
Aggregate ==
    /\ pc = "aggregate"
    /\ LET scores == SummaryScores(all_summaries)
       IN  /\ overall_score' = OverallScore(scores)
           /\ score_variance' = ScoreVariance(scores)
           /\ overall_decision' = OverallDecision(OverallScore(scores))
    /\ pc' = "synthesize"
    /\ UNCHANGED << attempt, all_reports, all_summaries, stage_ctx, started,
                    returned, cos_report, synthVars, challengeVars, result >>

(***************************************************************************)
(* ChiefOfStaff.synthesize                                                 *)
(***************************************************************************)

\* (mutant) the second synthesize call is given the query function too
HasQueryFn_Always(t) == TRUE

\* whether run passes a query function to the synthesize call number t
HasQueryFn(t) == t = 1

\* result.setdefault("agent", "Chief of Staff") of ChiefOfStaff._call_llm
ChiefResult(payload) == SetDefault(payload, "agent", "Chief of Staff")

\* where run continues when synthesize call number t returns
AfterSynthesize(t) == IF t = 1 THEN "decide" ELSE "build_result"

\* (mutant) the loop bound compared with <=
LoopContinues_OffByOne(made) == made <= MaxQueries

\* `while queries_made < max_queries`
LoopContinues(made) == made < MaxQueries

\* (mutant) the short-circuit on an empty conflict description removed
NoConflict_Never(conflicts) == FALSE

\* `if not conflicts: return {"should_query": False}` of _ask_for_query
NoConflict(conflicts) == conflicts = <<>>

\* (mutant) the loop looks at the name and the question only
LoopBreaks_TargetOnly(decision) ==
    \/ Get(decision, "vp_name", "") = ""
    \/ Get(decision, "question", "") = ""

\* the two `break`s of the query loop: not should_query, or no name / question
LoopBreaks(decision) ==
    \/ ~ Get(decision, "should_query", FALSE)
    \/ Get(decision, "vp_name", "") = ""
    \/ Get(decision, "question", "") = ""

\* the section "### <name>" of one specialist in the prompt: the lines that
\* _build_user_prompt writes for the summary vp, by their label
VPSection(key, vp) ==
    LET score_key    == key \o "_score"
        decision_key == key \o "_decision"
        summary_key  == key \o "_summary"
        risk_key     == IF key # "product" THEN "top_" \o key \o "_risks" ELSE "top_ux_risks"
        risks        == Take(Get(vp, risk_key, <<>>), 2)
    IN  (IF score_key \in DOMAIN vp THEN "Score" :> vp[score_key] ELSE EmptyDict)
        @@ (IF decision_key \in DOMAIN vp THEN "Decision" :> vp[decision_key] ELSE EmptyDict)
        @@ (IF summary_key \in DOMAIN vp THEN "Summary" :> vp[summary_key] ELSE EmptyDict)
        @@ (IF risk_key \in DOMAIN vp /\ risks # <<>> THEN "Top Risks" :> risks ELSE EmptyDict)
        @@ (IF "clarification" \in DOMAIN vp
            THEN "Clarification" :> vp["clarification"] ELSE EmptyDict)

\* the section "Key Details from Full Reports" of the prompt
KeyDetails(full_reports) ==
    LET Details(vp) == IF vp \in DOMAIN full_reports
                       THEN Get(full_reports[vp], "details", EmptyDict) ELSE EmptyDict
        som_focus  == Get(Get(Details("market"), "tam_sam_som", EmptyDict), "som_focus", "")
        components == Get(Get(Details("tech"), "architecture", EmptyDict),
                          "high_level_components", <<>>)
        pricing    == Get(Details("revenue"), "pricing_strategy", EmptyDict)
        milestones == Get(Get(Details("ops"), "execution_plan", EmptyDict), "milestones", <<>>)
        pmf        == Get(Details("product"), "pmf_readiness", EmptyDict)
    IN  (IF som_focus # "" THEN "Market - First Customers" :> som_focus ELSE EmptyDict)
        @@ (IF components # <<>> THEN "Tech - Architecture" :> components[1] ELSE EmptyDict)
        @@ (IF Get(pricing, "suggested_model", "") # ""
            THEN "Revenue - Pricing" :> pricing["suggested_model"] ELSE EmptyDict)
        @@ (IF Get(pricing, "price_points", <<>>) # <<>>
            THEN "Price points" :> Take(pricing["price_points"], 2) ELSE EmptyDict)
        @@ (IF milestones # <<>>
            THEN "Ops - Timeline" :>
                   [phases |-> Len(milestones),
                    phase1 |-> IF milestones[1] # EmptyDict
                               THEN [phase    |-> Get(milestones[1], "phase", "MVP"),
                                     timeline |-> Get(milestones[1], "timeline", "TBD")]
                               ELSE EmptyDict]
            ELSE EmptyDict)
        @@ (IF Get(pmf, "usability_score", 0) # 0 /\ Get(pmf, "delight_score", 0) # 0
            THEN "Product - PMF Readiness" :>
                   [usability |-> pmf["usability_score"], delight |-> pmf["delight_score"]]
            ELSE EmptyDict)

\* (mutant) the prompt is built without the clarifications
ChiefOfStaff_build_user_prompt_NoClarification(project, overall, dimensions, full_reports, has_query_tool) ==
    [idea_name        |-> Get(project, "idea_name", "Unknown idea"),
     description      |-> Get(project, "description", ""),
     overall_score    |-> Get(overall, "score", 0),
     overall_decision |-> Get(overall, "decision", ""),
     vp_summaries     |->
         [key \in {k \in VPs : Get(dimensions, k, EmptyDict) # EmptyDict} |->
             [l \in DOMAIN VPSection(key, dimensions[key]) \ {"Clarification"} |->
                 VPSection(key, dimensions[key])[l]]],
     key_details      |-> IF full_reports # EmptyDict THEN KeyDetails(full_reports) ELSE EmptyDict,
     has_query_tool   |-> has_query_tool]

\* _build_user_prompt: the prompt of a synthesis call, as the record of what
\* it states: the project, the overall assessment, one section for every
\* specialist that has a summary, the detail excerpts and the closing note
ChiefOfStaff_build_user_prompt(project, overall, dimensions, full_reports, has_query_tool) ==
    [idea_name        |-> Get(project, "idea_name", "Unknown idea"),
     description      |-> Get(project, "description", ""),
     overall_score    |-> Get(overall, "score", 0),
     overall_decision |-> Get(overall, "decision", ""),
     vp_summaries     |->
         [key \in {k \in VPs : Get(dimensions, k, EmptyDict) # EmptyDict} |->
             VPSection(key, dimensions[key])],
     key_details      |-> IF full_reports # EmptyDict THEN KeyDetails(full_reports) ELSE EmptyDict,
     has_query_tool   |-> has_query_tool]

\* overall_info of run, and the `overall` argument of the second synthesize
OverallInfo(score, decision) == [score |-> score, decision |-> decision]

\* The first-pass synthesis call of a synthesize turn.  cos_report holds
\* `initial_synthesis` while the turn runs; run reads it only after the turn.
Synthesize ==
    /\ pc = "synthesize"
    /\ turn' = turn + 1
    /\ started' = started \cup {"synthesis"}
    /\ synth_calls' = [synth_calls EXCEPT ![turn + 1] = @ + 1]
    /\ queries_made' = 0
    /\ query_decision' = None
    /\ synth_prompt' = ChiefOfStaff_build_user_prompt(
                           ProjectInfo, OverallInfo(overall_score, overall_decision),
                           all_summaries, all_reports, FALSE)
    /\ \/ /\ pc' = "aborted"
          /\ UNCHANGED << cos_report, returned >>
       \/ /\ \E payload \in SynthPayloads : cos_report' = ChiefResult(payload)
          /\ IF HasQueryFn(turn + 1) /\ LoopContinues(0)
             THEN pc' = "ask" /\ UNCHANGED returned
             ELSE pc' = AfterSynthesize(turn + 1) /\ returned' = returned \cup {"synthesis"}
    /\ UNCHANGED << attempt, all_reports, all_summaries, stage_ctx, aggregateVars,
                    decision_calls, queries_run, clar_log, challengeVars, result >>

\* _ask_for_query and the two `break`s that follow it in the loop; the
\* collaborator answers a decision call with a payload of `payloads`
AskForQueryOn(payloads) ==
    /\ pc = "ask"
    /\ LET conflicts == DetectConflicts(all_summaries)
       IN  \/ /\ NoConflict(conflicts)
              /\ query_decision' = [should_query |-> FALSE]
              /\ pc' = AfterSynthesize(turn)
              /\ returned' = returned \cup {"synthesis"}
              /\ UNCHANGED decision_calls
           \/ /\ ~ NoConflict(conflicts)
              /\ decision_calls' = [decision_calls EXCEPT ![turn] = @ + 1]
              /\ pc' = "aborted"
              /\ UNCHANGED << query_decision, returned >>
           \/ /\ ~ NoConflict(conflicts)
              /\ decision_calls' = [decision_calls EXCEPT ![turn] = @ + 1]
              /\ \E decision \in payloads :
                    /\ query_decision' = decision
                    /\ IF LoopBreaks(decision)
                       THEN /\ pc' = AfterSynthesize(turn)
                            /\ returned' = returned \cup {"synthesis"}
                       ELSE /\ pc' = "query"
                            /\ UNCHANGED returned
    /\ UNCHANGED << attempt, all_reports, all_summaries, stage_ctx, started,
                    aggregateVars, cos_report, turn, queries_made, synth_calls,
                    queries_run, synth_prompt, clar_log, challengeVars, result >>

AskForQuery == AskForQueryOn(DecisionPayloads)

\* clarification_context of query_vp
ClarificationContext(reports, vp_name, question) ==
    [original_report  |-> Get(reports, vp_name, EmptyDict),
     question         |-> question,
     is_clarification |-> TRUE]

\* (mutant) the summary of the queried specialist is replaced by the answer
StoreClarification_Replace(dimensions, vp_name, clarification) ==
    IF vp_name \in DOMAIN dimensions
    THEN [dimensions EXCEPT ![vp_name] = [clarification |-> clarification]]
    ELSE dimensions

\* `if vp_name in dimensions: dimensions[vp_name]["clarification"] = clarification`
StoreClarification(dimensions, vp_name, clarification) ==
    IF vp_name \in DOMAIN dimensions
    THEN [dimensions EXCEPT ![vp_name] = SetKey(@, "clarification", clarification)]
    ELSE dimensions

\* (mutant) the re-synthesis is made only for a name the summaries know
AfterQuery_KnownOnly(vp_name, dimensions) ==
    IF vp_name \in DOMAIN dimensions THEN "resynthesize" ELSE "ask"

\* what follows the return of query_vp_fn, whatever it returned and whether
\* or not it was stored: the re-synthesis
AfterQuery(vp_name, dimensions) == "resynthesize"

\* (mutant) a failed clarification call yields no answer at all
QueryFailure_None(vp_name) == None

\* `except Exception as e: return {"error": f"Failed to query {vp_name}: ..."}`
QueryFailure(vp_name) == [error |-> "Failed to query " \o vp_name]

\* (mutant) the name of a query decision is normalized before the lookup
VpMapGet_Normalized(vp_name) == NormalizeVPName(vp_name)

\* `vp_map.get(vp_name)` of query_vp: the key of the specialist, or "" for
\* Python's None; the name is looked up as given
VpMapGet(vp_name) == IF vp_name \in VPs THEN vp_name ELSE ""

\* query_vp_fn(vp_name, question): one attempt of the specialist's external
\* call (or none, for an unknown name), then the store into the summaries
ExecuteQuery ==
    /\ pc = "query"
    /\ LET vp_name  == query_decision["vp_name"]
           question == query_decision["question"]
           vp       == VpMapGet(vp_name)
       IN  /\ queries_run' = [queries_run EXCEPT ![turn] = IF attempt = 0 THEN @ + 1 ELSE @]
           /\ \/ /\ vp = ""
                 /\ all_summaries' = StoreClarification(all_summaries, vp_name,
                                        [error |-> "Unknown VP: " \o vp_name])
                 /\ pc' = AfterQuery(vp_name, all_summaries)
                 /\ UNCHANGED << attempt, clar_log >>
              \/ /\ vp # ""
                 /\ LET logged ==
                            IF attempt = 0
                            THEN Append(clar_log,
                                   [vp |-> vp,
                                    context |-> ClarificationContext(all_reports, vp_name, question),
                                    request |-> BuildUserPrompt(vp, ProjectBrief,
                                                   ClarificationContext(all_reports, vp_name, question))])
                            ELSE clar_log
                    IN  \/ /\ IF LastAttempt(attempt)
                              THEN /\ all_summaries' = StoreClarification(all_summaries, vp_name,
                                                         QueryFailure(vp_name))
                                   /\ clar_log' = logged
                                   /\ attempt' = 0
                                   /\ pc' = AfterQuery(vp_name, all_summaries)
                              ELSE /\ attempt' = attempt + 1
                                   /\ clar_log' = logged
                                   /\ UNCHANGED << all_summaries, pc >>
                        \/ /\ \E payload \in ClarPayloads :
                                all_summaries' = StoreClarification(all_summaries, vp_name,
                                                    AgentResult(vp, payload))
                           /\ clar_log' = logged
                           /\ attempt' = 0
                           /\ pc' = AfterQuery(vp_name, all_summaries)
    /\ UNCHANGED << all_reports, stage_ctx, started, returned, aggregateVars, cos_report,
                    turn, queries_made, query_decision, synth_calls, decision_calls,
                    synth_prompt, challengeVars, result >>

\* (mutant) the query counter is never advanced
QueriesMadeAfter_Stuck(made) == made

\* `queries_made += 1` at the end of one iteration of the query loop
QueriesMadeAfter(made) == made + 1

\* the re-synthesis call that ends one iteration of the query loop
ReSynthesize ==
    /\ pc = "resynthesize"
    /\ synth_calls' = [synth_calls EXCEPT ![turn] = @ + 1]
    /\ synth_prompt' = ChiefOfStaff_build_user_prompt(
                           ProjectInfo, OverallInfo(overall_score, overall_decision),
                           all_summaries, all_reports, TRUE)
    /\ \/ /\ pc' = "aborted"
          /\ UNCHANGED << cos_report, queries_made, returned >>
       \/ /\ \E payload \in SynthPayloads : cos_report' = ChiefResult(payload)
          /\ queries_made' = QueriesMadeAfter(queries_made)
          /\ IF LoopContinues(QueriesMadeAfter(queries_made))
             THEN pc' = "ask" /\ UNCHANGED returned
             ELSE pc' = AfterSynthesize(turn) /\ returned' = returned \cup {"synthesis"}
    /\ UNCHANGED << attempt, all_reports, all_summaries, stage_ctx, started,
                    aggregateVars, turn, query_decision, decision_calls, queries_run,
                    clar_log, challengeVars, result >>

(***************************************************************************)
(* Orchestrator.run, round 6: the Challenger and the re-analysis round     *)
(***************************************************************************)

\* `if self._should_run_devils_advocate(overall_score, score_variance, cos_report)`
Decide ==
    /\ pc = "decide"
    /\ trigger_evals' = trigger_evals + 1
    /\ pc' = IF ShouldRunDevilsAdvocate(overall_score, score_variance, cos_report)
             THEN "challenge" ELSE "build_result"
    /\ UNCHANGED << attempt, all_reports, all_summaries, stage_ctx, started,
                    returned, aggregateVars, cos_report, synthVars,
                    devils_advocate_result, challenge_calls, rerun_idx,
                    updated_reports, rerun_log, before_reports, before_summaries,
                    result >>

\* `if devils_advocate_result.get("requires_re_analysis")`
RequiresReAnalysis(da) == Get(da, "requires_re_analysis", FALSE)

\* DevilsAdvocate.challenge: one external call, no retry
Challenge ==
    /\ pc = "challenge"
    /\ challenge_calls' = challenge_calls + 1
    /\ \/ /\ pc' = "aborted"
          /\ UNCHANGED << devils_advocate_result, before_reports, before_summaries,
                          rerun_idx, updated_reports >>
       \/ /\ \E payload \in ChallengePayloads :
                /\ devils_advocate_result' = SetDefault(payload, "agent", "Devil's Advocate")
                /\ pc' = IF RequiresReAnalysis(payload) THEN "re_analyze" ELSE "build_result"
          /\ before_reports' = all_reports
          /\ before_summaries' = all_summaries
          /\ rerun_idx' = 1
          /\ updated_reports' = EmptyDict
    /\ UNCHANGED << attempt, all_reports, all_summaries, stage_ctx, started, returned,
                    aggregateVars, cos_report, synthVars, trigger_evals, rerun_log,
                    result >>

\* re_analysis_context of _re_analyze_vps
ReAnalysisContext(reports, vp_name, guidance) ==
    [devils_advocate_guidance |-> guidance,
     previous_report          |-> Get(reports, vp_name, EmptyDict),
     is_re_analysis           |-> TRUE]

\* the arguments run passes to _re_analyze_vps
VpsToRerun == Get(devils_advocate_result, "vps_to_rerun", <<>>)

Guidance == Get(devils_advocate_result, "guidance", "")

\* (mutant) an unknown name ends the loop
AfterSkip_Break(idx, len) == len + 1

\* `if not vp_name: ... continue`: the loop goes on with the next name
AfterSkip(idx, len) == idx + 1

\* One pass of the body of the loop of _re_analyze_vps: a skipped name, or
\* one attempt of the external call of the named specialist; the
\* collaborator answers with a payload of `payloads`.
ReAnalyzeVpsOn(payloads) ==
    /\ pc = "re_analyze"
    /\ rerun_idx <= Len(VpsToRerun)
    /\ LET vp_name == NormalizeVPName(VpsToRerun[rerun_idx])
       IN  \/ /\ vp_name = ""
              /\ rerun_idx' = AfterSkip(rerun_idx, Len(VpsToRerun))
              /\ UNCHANGED << attempt, updated_reports, rerun_log >>
           \/ /\ vp_name # ""
              /\ LET logged ==
                         IF attempt = 0
                         THEN Append(rerun_log,
                                [vp |-> vp_name,
                                 context |-> ReAnalysisContext(all_reports, vp_name, Guidance),
                                 request |-> BuildUserPrompt(vp_name, ProjectBrief,
                                                ReAnalysisContext(all_reports, vp_name, Guidance))])
                         ELSE rerun_log
                 IN  \/ /\ IF LastAttempt(attempt)
                           THEN /\ attempt' = 0
                                /\ rerun_idx' = rerun_idx + 1
                                /\ rerun_log' = logged
                           ELSE /\ attempt' = attempt + 1
                                /\ rerun_log' = logged
                                /\ UNCHANGED rerun_idx
                        /\ UNCHANGED updated_reports
                     \/ /\ \E payload \in payloads :
                             updated_reports' = SetKey(updated_reports, vp_name,
                                                       AgentResult(vp_name, payload))
                        /\ rerun_log' = logged
                        /\ attempt' = 0
                        /\ rerun_idx' = rerun_idx + 1
    /\ UNCHANGED << pc, all_reports, all_summaries, stage_ctx, started, returned,
                    aggregateVars, cos_report, synthVars, devils_advocate_result,
                    challenge_calls, trigger_evals, before_reports, before_summaries,
                    result >>

ReAnalyzeVps == ReAnalyzeVpsOn(Payloads)

\* (mutant) the summaries are rebuilt but the stored reports stay as they were
UpdateReports_Skipped(reports, updated) == reports

\* all_reports.update(updated_reports)
UpdateReports(reports, updated) ==
    [vp \in DOMAIN reports |-> IF vp \in DOMAIN updated THEN updated[vp] ELSE reports[vp]]

\* (mutant) every summary rebuilt, which drops the stored clarifications
UpdateSummaries_Rebuilt(sums, updated) ==
    [vp \in DOMAIN sums |->
        IF vp \in DOMAIN updated
        THEN Summarize(vp, updated[vp])
        ELSE [k \in DOMAIN sums[vp] \ {"clarification"} |-> sums[vp][k]]]

\* `for vp_name, report in updated_reports.items():
\*      all_summaries[vp_name] = vp_agent.summarize(report)`
UpdateSummaries(sums, updated) ==
    [vp \in DOMAIN sums |->
        IF vp \in DOMAIN updated THEN Summarize(vp, updated[vp]) ELSE sums[vp]]

\* (mutant) the overall score left as it was before the re-analysis round
RecalculatedScore_Stale(sums) == overall_score

\* the recalculation of overall_score after the re-analysis round
RecalculatedScore(sums) ==
    RoundMean5(SeqSum(<< Get(sums["market"],  "market_score",  0),
                         Get(sums["tech"],    "tech_score",    0),
                         Get(sums["revenue"], "revenue_score", 0),
                         Get(sums["ops"],     "ops_score",     0),
                         Get(sums["product"], "product_score", 0) >>))

\* the return of _re_analyze_vps, the update of the reports and summaries and
\* the recalculation of the overall score
ReAggregate ==
    /\ pc = "re_analyze"
    /\ rerun_idx > Len(VpsToRerun)
    /\ all_reports' = UpdateReports(all_reports, updated_reports)
    /\ all_summaries' = UpdateSummaries(all_summaries, updated_reports)
    /\ overall_score' = RecalculatedScore(UpdateSummaries(all_summaries, updated_reports))
    /\ pc' = "synthesize"
    /\ UNCHANGED << attempt, stage_ctx, started, returned, overall_decision,
                    score_variance, cos_report, synthVars, challengeVars, result >>

\* (mutant) the result built without the Challenger's output
BuildResult_Bare ==
    /\ pc = "build_result"
    /\ result' = [project |-> ProjectInfo,
                  reports |-> all_reports,
                  counsel_summary |->
                      [overall_score    |-> overall_score,
                       overall_decision |-> overall_decision,
                       by_dimension     |-> all_summaries,
                       chief_of_staff   |-> cos_report]]
    /\ pc' = "done"
    /\ UNCHANGED << attempt, all_reports, all_summaries, stage_ctx, started,
                    returned, aggregateVars, cos_report, synthVars, challengeVars >>

\* the result dict of run
BuildResult ==
    /\ pc = "build_result"
    /\ LET base == [project |-> ProjectInfo,
                    reports |-> all_reports,
                    counsel_summary |->
                        [overall_score    |-> overall_score,
                         overall_decision |-> overall_decision,
                         by_dimension     |-> all_summaries,
                         chief_of_staff   |-> cos_report]]
       IN  result' = IF devils_advocate_result # None
                     THEN SetKey(base, "devils_advocate", devils_advocate_result)
                     ELSE base
    /\ pc' = "done"
    /\ UNCHANGED << attempt, all_reports, all_summaries, stage_ctx, started,
                    returned, aggregateVars, cos_report, synthVars, challengeVars >>

Next ==
    \/ MarketStage
    \/ ProductStage
    \/ TechStage
    \/ RevenueStage
    \/ OpsStage
    \/ Aggregate
    \/ Synthesize
    \/ AskForQuery
    \/ ExecuteQuery
    \/ ReSynthesize
    \/ Decide
    \/ Challenge
    \/ ReAnalyzeVps
    \/ ReAggregate
    \/ BuildResult

Spec == Init /\ [][Next]_vars

(***************************************************************************)
(* The aggregation alone, over a grid of scores that reaches the rounding  *)
(* and the decision thresholds                                             *)
(***************************************************************************)

\* the position of each specialist in a vector of five scores
ScoreIndex(vp) == CHOOSE i \in 1..Len(VPOrder) : VPOrder[i] = vp

ScenarioScores == { <<900, 800, 850, 900, 800>>, <<900, 300, 800, 700, 600>> }

AggregateGrid == {0, 400, 599, 799, 800, 1000}

AggregateInputs == [1..5 -> AggregateGrid] \cup ScenarioScores

\* the reports of a first round in which the specialists scored `scores`
ReportsOf(scores) ==
    [vp \in VPs |-> AgentResult(vp, Payload(scores[ScoreIndex(vp)], "Solid plan"))]

SummariesOf(scores) == [vp \in VPs |-> Summarize(vp, ReportsOf(scores)[vp])]

\* the state of run when round 4 has returned with these scores
AfterRound4(scores) ==
    /\ attempt = 0
    /\ all_reports = ReportsOf(scores)
    /\ all_summaries = SummariesOf(scores)
    /\ stage_ctx = [vp \in VPs |-> StageContext(vp, ReportsOf(scores), SummariesOf(scores))]
    /\ devils_advocate_result = None
    /\ clar_log = <<>>
    /\ queries_run = [t \in Turns |-> 0]
    /\ challenge_calls = 0
    /\ trigger_evals = 0
    /\ rerun_idx = 0
    /\ updated_reports = EmptyDict
    /\ rerun_log = <<>>
    /\ before_reports = None
    /\ before_summaries = None
    /\ result = None

InitAggregate ==
    /\ \E scores \in AggregateInputs : AfterRound4(scores)
    /\ pc = "aggregate"
    /\ started = VPs
    /\ returned = VPs
    /\ overall_score = -1
    /\ overall_decision = ""
    /\ score_variance = -1
    /\ cos_report = None
    /\ turn = 0
    /\ queries_made = 0
    /\ query_decision = None
    /\ synth_calls = [t \in Turns |-> 0]
    /\ decision_calls = [t \in Turns |-> 0]
    /\ synth_prompt = None

NextAggregate == Aggregate

SpecAggregate == InitAggregate /\ [][NextAggregate]_vars

(***************************************************************************)
(* The Challenger trigger alone, over scores and verdicts that reach its   *)
(* boundaries: run is about to evaluate it after a first synthesize turn   *)
(* that asked for no clarification.                                        *)
(***************************************************************************)

TriggerGrid == {500, 600, 750, 900}

TriggerInputs == [1..5 -> TriggerGrid] \cup ScenarioScores

\* the verdicts of the synthesis the trigger reads
TriggerVerdicts ==
    { "Proceed with the MVP",
      "Outlook UNCERTAIN until demand is tested",
      "Market fit is Unclear",
      "Validation Needed before launch",
      "The pricing needs testing",
      "We are certain: clear fit, no validation is needed" }

\* the prompt of the first synthesis call of a run whose first rounds scored
\* `scores`
FirstPrompt(scores) ==
    ChiefOfStaff_build_user_prompt(
        ProjectInfo,
        OverallInfo(OverallScore(SummaryScores(SummariesOf(scores))),
                    OverallDecision(OverallScore(SummaryScores(SummariesOf(scores))))),
        SummariesOf(scores), ReportsOf(scores), FALSE)

InitTrigger ==
    /\ \E scores \in TriggerInputs :
          /\ AfterRound4(scores)
          /\ overall_score = OverallScore(SummaryScores(SummariesOf(scores)))
          /\ score_variance = ScoreVariance(SummaryScores(SummariesOf(scores)))
          /\ overall_decision = OverallDecision(OverallScore(SummaryScores(SummariesOf(scores))))
          /\ synth_prompt = FirstPrompt(scores)
          /\ IF NoConflict(DetectConflicts(SummariesOf(scores)))
             THEN /\ query_decision = [should_query |-> FALSE]
                  /\ decision_calls = [t \in Turns |-> 0]
             ELSE /\ query_decision = [should_query |-> FALSE, reason |-> "clear enough"]
                  /\ decision_calls = [t \in Turns |-> IF t = 1 THEN 1 ELSE 0]
    /\ \E verdict \in TriggerVerdicts :
          cos_report = ChiefResult([overall_verdict |-> verdict])
    /\ pc = "decide"
    /\ started = VPs \cup {"synthesis"}
    /\ returned = VPs \cup {"synthesis"}
    /\ turn = 1
    /\ queries_made = 0
    /\ synth_calls = [t \in Turns |-> IF t = 1 THEN 1 ELSE 0]

NextTrigger == Decide \/ Challenge

SpecTrigger == InitTrigger /\ [][NextTrigger]_vars

(***************************************************************************)
(* The first four rounds and the aggregation, with a collaborator that     *)
(* also answers with payloads that lack fields or hold a null score        *)
(***************************************************************************)

\* parseable payloads, well-formed or not
AnyPayloads ==
    { Payload(500, "Solid plan"),
      EmptyDict,
      [score |-> 900],
      [summary |-> "No score given", details |-> [basis |-> "none", points |-> 0]],
      [score |-> JsonNull, summary |-> "Score is null",
       details |-> [basis |-> "none", points |-> 0],
       risks |-> <<"risk a">>, top_risks |-> <<"risk a">>] }

MarketStageAny == StageOn("market", AnyPayloads)

ProductStageAny == StageOn("product", AnyPayloads)

TechStageAny == StageOn("tech", AnyPayloads)

RevenueStageAny == StageOn("revenue", AnyPayloads)

OpsStageAny == StageOn("ops", AnyPayloads)

NextPayloads ==
    \/ MarketStageAny
    \/ ProductStageAny
    \/ TechStageAny
    \/ RevenueStageAny
    \/ OpsStageAny
    \/ Aggregate

SpecPayloads == Init /\ [][NextPayloads]_vars

(***************************************************************************)
(* The first four rounds with a collaborator whose answer tells which call *)
(* of the invocation it answers, and may give an agent identity of its own *)
(***************************************************************************)

CallLabel == << "Answer to call 1", "Answer to call 2", "Answer to call 3" >>

\* the payloads the collaborator can return to the call made when `a`
\* attempts of the invocation have failed
CallPayloads(a) ==
    { [score |-> 700, summary |-> CallLabel[a + 1]],
      [score |-> 600, summary |-> CallLabel[a + 1], agent |-> "Guest analyst"] }

MarketStageRetry == StageOn("market", CallPayloads(attempt))

ProductStageRetry == StageOn("product", CallPayloads(attempt))

TechStageRetry == StageOn("tech", CallPayloads(attempt))

RevenueStageRetry == StageOn("revenue", CallPayloads(attempt))

OpsStageRetry == StageOn("ops", CallPayloads(attempt))

NextRetry ==
    \/ MarketStageRetry
    \/ ProductStageRetry
    \/ TechStageRetry
    \/ RevenueStageRetry
    \/ OpsStageRetry
    \/ Aggregate

SpecRetry == Init /\ [][NextRetry]_vars

(***************************************************************************)
(* The first synthesize turn alone, with a collaborator whose decisions    *)
(* also name a target while refusing, or leave should_query out            *)
(***************************************************************************)

\* the first rounds of these runs: one with a score spread, one without
SynthScores == { <<900, 300, 800, 700, 600>>, <<500, 500, 500, 500, 500>> }

\* parseable decision payloads, well-formed or not
DecisionPayloadsAny ==
    DecisionPayloads
    \cup { [should_query |-> FALSE, vp_name |-> "tech",
            question |-> "CLI or web UI first?", reason |-> "resolved already"],
           [vp_name |-> "product", question |-> "Who is the first user?"],
           [should_query |-> TRUE, vp_name |-> "product",
            question |-> "Who is the first user?", reason |-> "persona"] }

InitSynth ==
    /\ \E scores \in SynthScores :
          /\ AfterRound4(scores)
          /\ overall_score = OverallScore(SummaryScores(SummariesOf(scores)))
          /\ score_variance = ScoreVariance(SummaryScores(SummariesOf(scores)))
          /\ overall_decision = OverallDecision(OverallScore(SummaryScores(SummariesOf(scores))))
    /\ pc = "synthesize"
    /\ started = VPs
    /\ returned = VPs
    /\ cos_report = None
    /\ turn = 0
    /\ queries_made = 0
    /\ query_decision = None
    /\ synth_calls = [t \in Turns |-> 0]
    /\ decision_calls = [t \in Turns |-> 0]
    /\ synth_prompt = None

AskForQueryAny == AskForQueryOn(DecisionPayloadsAny)

NextSynth ==
    \/ Synthesize
    \/ AskForQueryAny
    \/ ExecuteQuery
    \/ ReSynthesize

SpecSynth == InitSynth /\ [][NextSynth]_vars

(***************************************************************************)
(* The re-analysis round alone, over many spellings of the names: the      *)
(* Challenger has just returned requires_re_analysis = true for a run      *)
(* whose first round scored [9, 3, 8, 7, 6].                               *)
(***************************************************************************)

\* spellings of specialist names, and of names that are nobody's
NameSpellings ==
    { "market", "Market", "MARKET", "tech", "Tech", "TECH",
      "technology", "Technology", "revenue", "Revenue", "ops", "Ops", "OPS",
      "operations", "Operations", "product", "Product",
      "product & ux", "Product & UX", "product and ux", "Product and UX",
      "ux", "UX", "Sales", "sales", "engineering", "" }

NamePrefixes == { "", "  ", "VP " }

NameSuffixes == { "", " VP", " vp", "VP", " Vp " }

\* the lists of one name
SingleNameLists ==
    { << p \o b \o s >> : p \in NamePrefixes, b \in NameSpellings, s \in NameSuffixes }

\* lists that mix names of specialists with names that are nobody's
MixedNameLists ==
    { <<"Sales", "ops">>, <<"tech", "Sales">>, <<"Operations VP", "Sales", "ux">>,
      <<"Sales", "Marketing", "market">>, <<"Sales", "Marketing">> }

RerunInputs == SingleNameLists \cup MixedNameLists

\* the scores of the first round of these runs
RerunScores == <<900, 300, 800, 700, 600>>

\* the state of run when the Challenger has returned one of `lists`
InitRerunOn(lists) ==
    /\ pc = "re_analyze"
    /\ attempt = 0
    /\ all_reports = ReportsOf(RerunScores)
    /\ all_summaries = SummariesOf(RerunScores)
    /\ stage_ctx = [vp \in VPs |->
                      StageContext(vp, ReportsOf(RerunScores), SummariesOf(RerunScores))]
    /\ started = VPs \cup {"synthesis"}
    /\ returned = VPs \cup {"synthesis"}
    /\ overall_score = OverallScore(SummaryScores(SummariesOf(RerunScores)))
    /\ overall_decision =
          OverallDecision(OverallScore(SummaryScores(SummariesOf(RerunScores))))
    /\ score_variance = ScoreVariance(SummaryScores(SummariesOf(RerunScores)))
    /\ cos_report = ChiefResult([overall_verdict |-> "Proceed with the MVP"])
    /\ \E l \in lists :
          devils_advocate_result =
              SetDefault([requires_re_analysis |-> TRUE, vps_to_rerun |-> l,
                          guidance |-> "Validate demand before building"],
                         "agent", "Devil's Advocate")
    /\ turn = 1
    /\ queries_made = 0
    /\ query_decision = [should_query |-> FALSE, reason |-> "clear enough"]
    /\ synth_calls = [t \in Turns |-> IF t = 1 THEN 1 ELSE 0]
    /\ decision_calls = [t \in Turns |-> IF t = 1 THEN 1 ELSE 0]
    /\ queries_run = [t \in Turns |-> 0]
    /\ synth_prompt = FirstPrompt(RerunScores)
    /\ clar_log = <<>>
    /\ challenge_calls = 1
    /\ trigger_evals = 1
    /\ rerun_idx = 1
    /\ updated_reports = EmptyDict
    /\ rerun_log = <<>>
    /\ before_reports = ReportsOf(RerunScores)
    /\ before_summaries = SummariesOf(RerunScores)
    /\ result = None

InitRerun == InitRerunOn(RerunInputs)

NextRerun == ReAnalyzeVps \/ ReAggregate

SpecRerun == InitRerun /\ [][NextRerun]_vars

(***************************************************************************)
(* summarize alone: the re-analysis of one specialist, whose new report    *)
(* ranges over scores at the thresholds, risk lists of several lengths and *)
(* details with and without UX risks, is summarized after the round.       *)
(***************************************************************************)

SummaryScoreGrid == {0, 399, 400, 599, 600, 799, 800, 1000}

\* the details of a report: opaque ones, and Product's PMF readiness
SummaryDetails ==
    { [basis |-> "Solid plan", points |-> 0],
      [pmf_readiness |-> [usability_score |-> 700, delight_score |-> 600,
                          ux_risks |-> <<"ux risk a", "ux risk b">>]] }

\* the risk lists of a report, under the two keys the specialists use
SummaryRisks ==
    { [risks |-> <<>>, top_risks |-> <<>>],
      [risks |-> <<"risk a", "risk b">>, top_risks |-> <<"top risk a">>],
      [risks |-> <<"risk a", "risk b", "risk c", "risk d">>,
       top_risks |-> <<"top risk a", "top risk b", "top risk c", "top risk d">>] }

SummaryPayloads ==
    { [score |-> s, summary |-> "Solid plan", details |-> d,
       risks |-> r.risks, top_risks |-> r.top_risks] :
          s \in SummaryScoreGrid, d \in SummaryDetails, r \in SummaryRisks }

InitResummarize == InitRerunOn({ <<vp>> : vp \in VPs })

ReAnalyzeVpsWide == ReAnalyzeVpsOn(SummaryPayloads)

NextResummarize == ReAnalyzeVpsWide \/ ReAggregate

SpecResummarize == InitResummarize /\ [][NextResummarize]_vars

(***************************************************************************)
(* Termination: the whole of run, with every answer of every call after    *)
(* the first round; in the first round Tech answers with either payload,   *)
(* so that runs with and without a conflict occur, and the others with one.*)
(***************************************************************************)

LivePayloads(vp) ==
    IF vp = "tech" THEN Payloads ELSE { Payload(500, "Solid plan") }

MarketStageLive == StageOn("market", LivePayloads("market"))

ProductStageLive == StageOn("product", LivePayloads("product"))

TechStageLive == StageOn("tech", LivePayloads("tech"))

RevenueStageLive == StageOn("revenue", LivePayloads("revenue"))

OpsStageLive == StageOn("ops", LivePayloads("ops"))

NextLive ==
    \/ MarketStageLive
    \/ ProductStageLive
    \/ TechStageLive
    \/ RevenueStageLive
    \/ OpsStageLive
    \/ Aggregate
    \/ Synthesize
    \/ AskForQuery
    \/ ExecuteQuery
    \/ ReSynthesize
    \/ Decide
    \/ Challenge
    \/ ReAnalyzeVps
    \/ ReAggregate
    \/ BuildResult

\* run is one sequential thread that never waits on anything but the
\* collaborator, whose every call returns or raises: an enabled step is taken
SpecLive == Init /\ [][NextLive]_vars /\ WF_vars(NextLive)

(***************************************************************************)
(* Claims                                                                  *)
(***************************************************************************)

\* C1: no stage's external call is started before every stage it depends on
\* has returned: Product after Market; Tech and Revenue after Market and
\* Product; Ops after all four; the synthesis after all five.
C1_StageOrder ==
    /\ "product" \in started => "market" \in returned
    /\ "tech" \in started => {"market", "product"} \subseteq returned
    /\ "revenue" \in started => {"market", "product"} \subseteq returned
    /\ "ops" \in started => {"market", "product", "tech", "revenue"} \subseteq returned
    /\ "synthesis" \in started => VPs \subseteq returned

\* C1 witness: the first synthesis call has been made after all five stages
C1_Witness == pc = "ask" /\ "synthesis" \in started /\ VPs \subseteq returned

\* C2: during the first round, Product's context is exactly Market's summary
\* and details; Tech's and Revenue's contexts are the same record, exactly
\* Market's and Product's summaries and details (nothing of Tech or Revenue);
\* Ops's context holds the summaries of all four earlier specialists.
C2_Independence ==
    /\ (stage_ctx["tech"] # None /\ stage_ctx["revenue"] # None)
          => stage_ctx["revenue"] = stage_ctx["tech"]
    /\ turn = 0 =>
          /\ stage_ctx["product"] # None =>
                stage_ctx["product"] =
                    [market_summary |-> all_summaries["market"],
                     market_details |-> all_reports["market"]["details"]]
          /\ \A vp \in {"tech", "revenue"} :
                stage_ctx[vp] # None =>
                    stage_ctx[vp] =
                        [market_summary  |-> all_summaries["market"],
                         market_details  |-> all_reports["market"]["details"],
                         product_summary |-> all_summaries["product"],
                         product_details |-> all_reports["product"]["details"]]
          /\ stage_ctx["ops"] # None =>
                /\ {"market_summary", "product_summary", "tech_summary", "revenue_summary"}
                       \subseteq DOMAIN stage_ctx["ops"]
                /\ stage_ctx["ops"]["market_summary"] = all_summaries["market"]
                /\ stage_ctx["ops"]["product_summary"] = all_summaries["product"]
                /\ stage_ctx["ops"]["tech_summary"] = all_summaries["tech"]
                /\ stage_ctx["ops"]["revenue_summary"] = all_summaries["revenue"]

\* C2 witness: round 4 has been called after Tech and Revenue returned
\* different scores from the same context
C2_Witness ==
    /\ turn = 0
    /\ stage_ctx["ops"] # None
    /\ stage_ctx["revenue"] = stage_ctx["tech"]
    /\ all_reports["tech"]["score"] # all_reports["revenue"]["score"]

\* the sum of the five scores the specialists returned
ReportedTotal ==
    all_reports["market"]["score"] + all_reports["tech"]["score"]
    + all_reports["revenue"]["score"] + all_reports["ops"]["score"]
    + all_reports["product"]["score"]

\* C3: the overall score is the hundredth nearest to the mean of the five
\* scores (5 * overall is within 2 of the total, all in hundredths), and it
\* lies in [0, 10].
C3_AggregateMean ==
    pc = "synthesize" =>
        /\ 5 * overall_score - ReportedTotal \in -2..2
        /\ overall_score \in 0..1000

\* C3 witness: an aggregate whose mean had to be rounded up
C3_Witness == pc = "synthesize" /\ 5 * overall_score > ReportedTotal

\* C4: the decision label is fixed by the tier of the overall score, with
\* the tiers split at 4, 6 and 8 (8.0 is strong-proceed, 7.99 the tier below).
C4_DecisionTiers ==
    pc = "synthesize" =>
        /\ overall_score >= 800 <=>
              overall_decision = "Proceed with MVP (strong across all dimensions)"
        /\ (overall_score >= 600 /\ overall_score < 800) <=>
              overall_decision =
                 "Proceed with focused execution (solid opportunity with manageable risks)"
        /\ (overall_score >= 400 /\ overall_score < 600) <=>
              overall_decision =
                 "Proceed with caution (significant challenges, consider pivots)"
        /\ overall_score < 400 <=>
              overall_decision =
                 "Do not proceed in current form (major risks across multiple dimensions)"

\* C4 witness: an overall score of exactly 8.0 labelled strong-proceed
C4_Witness ==
    /\ pc = "synthesize"
    /\ overall_score = 800
    /\ overall_decision = "Proceed with MVP (strong across all dimensions)"

\* the scores the specialists reported, as a set
ReportedScores == {all_reports[vp]["score"] : vp \in VPs}

\* the verdicts that contain an uncertainty keyword, whatever the case
UncertainVerdicts ==
    { "Outlook UNCERTAIN until demand is tested",
      "Market fit is Unclear",
      "Validation Needed before launch",
      "The pricing needs testing" }

C6_QueryBound ==
    \A t \in Turns :
        /\ queries_run[t] <= 2
        /\ decision_calls[t] <= 2
        /\ queries_run[t] <= decision_calls[t]
        /\ (t = turn /\ pc = "ask") => queries_run[t] < 2

\* C6 witness: a turn that ran two queries has returned
C6_Witness == pc = "decide" /\ queries_run[1] = 2 /\ decision_calls[1] = 2

\* C7: when the conflict detector finds no signal, the query decision is
\* should_query = false without an external decision call, no query runs and
\* the turn makes exactly one synthesis call.
C7_NoConflictShortCircuit ==
    (pc = "decide" /\ DetectConflicts(all_summaries) = <<>>) =>
        /\ decision_calls[1] = 0
        /\ queries_run[1] = 0
        /\ synth_calls[1] = 1
        /\ query_decision = [should_query |-> FALSE]

\* C7 witness: a first turn over five agreeing summaries has returned
C7_Witness ==
    /\ pc = "decide"
    /\ \A vp \in VPs : all_reports[vp]["score"] = 500
    /\ DetectConflicts(all_summaries) = <<>>
    /\ synth_calls[1] = 1

\* the canonical key of each name the Challenger can give ("" for none)
CanonicalKey ==
    ("Tech VP" :> "tech") @@ ("product" :> "product") @@ ("Sales" :> "")
    @@ ("ops" :> "ops") @@ ("tech" :> "tech") @@ ("Technology" :> "tech")
    @@ ("Operations VP" :> "ops") @@ ("ux" :> "product")

\* the specialists the Challenger named, by canonical key
NamedVPs ==
    IF devils_advocate_result = None THEN {}
    ELSE {CanonicalKey[devils_advocate_result["vps_to_rerun"][i]] :
             i \in 1..Len(devils_advocate_result["vps_to_rerun"])} \ {""}

\* the specialists re-invoked by the re-analysis round
ReInvoked == {rerun_log[i].vp : i \in 1..Len(rerun_log)}

\* C8: the re-analysis round re-invokes exactly the specialists named, after
\* normalisation (["Tech VP", "product"] re-runs tech and product), each with
\* the Challenger's guidance and its own previous report; nobody is
\* re-invoked when re-analysis is not required or the Challenger did not run.
C8_ReAnalysis ==
    /\ ReInvoked \subseteq NamedVPs
    /\ turn = 2 => ReInvoked = NamedVPs
    /\ \A i \in 1..Len(rerun_log) :
          rerun_log[i].context =
              [devils_advocate_guidance |-> devils_advocate_result["guidance"],
               previous_report          |-> before_reports[rerun_log[i].vp],
               is_re_analysis           |-> TRUE]
    /\ devils_advocate_result = None => rerun_log = <<>>
    /\ (devils_advocate_result # None
        /\ ~ devils_advocate_result["requires_re_analysis"]) => rerun_log = <<>>

\* C8 witness: ["Tech VP", "product"] re-ran tech and product
C8_Witness ==
    /\ turn = 2
    /\ devils_advocate_result # None
    /\ devils_advocate_result["vps_to_rerun"] = <<"Tech VP", "product">>
    /\ ReInvoked = {"tech", "product"}

\* C9: a specialist the Challenger did not name keeps its report and its
\* summary (a clarification stored in it included) through the re-analysis
\* round and into the returned result.
C9_Untouched ==
    before_reports # None =>
        \A vp \in VPs \ NamedVPs :
            /\ all_reports[vp] = before_reports[vp]
            /\ all_summaries[vp] = before_summaries[vp]
            /\ pc = "done" =>
                  /\ result["reports"][vp] = before_reports[vp]
                  /\ result["counsel_summary"]["by_dimension"][vp] = before_summaries[vp]

\* C9 witness: ops was re-analysed and changed, tech kept its clarification
C9_Witness ==
    /\ pc = "done"
    /\ turn = 2
    /\ devils_advocate_result["vps_to_rerun"] = <<"Sales", "ops">>
    /\ all_reports["ops"] # before_reports["ops"]
    /\ "clarification" \in DOMAIN all_summaries["tech"]
    /\ result["counsel_summary"]["by_dimension"]["tech"] = before_summaries["tech"]

\* C10: one run invokes the Challenger at most once and synthesize at most
\* twice; the second synthesize happens exactly when the Challenger ran and
\* required re-analysis, makes one synthesis call, no decision call and no
\* query; the trigger is evaluated at most once.
C10_SingleCycle ==
    /\ challenge_calls <= 1
    /\ trigger_evals <= 1
    /\ turn <= 2
    /\ turn = 2 =>
          /\ devils_advocate_result # None
          /\ devils_advocate_result["requires_re_analysis"]
    /\ pc = "done" =>
          (turn = 2 <=> (/\ devils_advocate_result # None
                         /\ devils_advocate_result["requires_re_analysis"]))
    /\ (pc = "done" /\ turn = 2) => synth_calls[2] = 1
    /\ synth_calls[2] <= 1
    /\ decision_calls[2] = 0
    /\ queries_run[2] = 0

\* C10 witness: a second synthesize ran although no specialist was re-invoked
C10_Witness ==
    /\ pc = "done"
    /\ turn = 2
    /\ rerun_log = <<>>
    /\ synth_calls[2] = 1
    /\ trigger_evals = 1

\* the sum of the five scores of a by-dimension record of summaries
DimensionTotal(dims) ==
    dims["market"]["market_score"] + dims["tech"]["tech_score"]
    + dims["revenue"]["revenue_score"] + dims["ops"]["ops_score"]
    + dims["product"]["product_score"]

\* C11: in every returned result the overall score is the mean, rounded to
\* two decimals, of the five scores of by_dimension as returned (after a
\* re-analysis round: of the unchanged and the updated summaries together).
C11_ResultAggregate ==
    pc = "done" =>
        5 * result["counsel_summary"]["overall_score"]
            - DimensionTotal(result["counsel_summary"]["by_dimension"]) \in -2..2

\* C11 witness: a result returned after a re-analysis round that moved the mean
C11_Witness ==
    /\ pc = "done"
    /\ turn = 2
    /\ DimensionTotal(result["counsel_summary"]["by_dimension"])
          # DimensionTotal(before_summaries)
    /\ 5 * result["counsel_summary"]["overall_score"]
          = DimensionTotal(result["counsel_summary"]["by_dimension"])

\* C12: in every returned result the decision label is the one the thresholds
\* >= 8, >= 6, >= 4, else assign to the returned overall score, also when the
\* score was recomputed after a re-analysis round.
C12_ResultDecision ==
    pc = "done" =>
        LET score == result["counsel_summary"]["overall_score"]
            label == result["counsel_summary"]["overall_decision"]
        IN  label =
              IF score >= 800
              THEN "Proceed with MVP (strong across all dimensions)"
              ELSE IF score >= 600
              THEN "Proceed with focused execution (solid opportunity with manageable risks)"
              ELSE IF score >= 400
              THEN "Proceed with caution (significant challenges, consider pivots)"
              ELSE "Do not proceed in current form (major risks across multiple dimensions)"

\* the canonical key of each spelling ("" for none)
SpellingKey ==
    [b \in NameSpellings |->
        CASE b \in {"market", "Market", "MARKET"} -> "market"
          [] b \in {"tech", "Tech", "TECH", "technology", "Technology"} -> "tech"
          [] b \in {"revenue", "Revenue"} -> "revenue"
          [] b \in {"ops", "Ops", "OPS", "operations", "Operations"} -> "ops"
          [] b \in {"product", "Product", "product & ux", "Product & UX",
                    "product and ux", "Product and UX", "ux", "UX"} -> "product"
          [] OTHER -> ""]

\* the key the re-analysis round resolved a one-name list to ("" for none)
ResolvedKey == IF rerun_log = <<>> THEN "" ELSE rerun_log[1].vp

\* C13: a list of one name, once processed, re-invokes the specialist whose
\* spelling it is, whatever the case, the white space around it and a "VP"
\* token before or after it, and nobody for a name that is nobody's; the
\* key is always one of the five or none, a canonical key resolves to
\* itself, and the round never aborts.
C13_Normalization ==
    /\ pc # "aborted"
    /\ ReInvoked \subseteq VPs
    /\ (Len(devils_advocate_result["vps_to_rerun"]) = 1 /\ rerun_idx > 1) =>
          /\ \A p \in NamePrefixes, b \in NameSpellings, s \in NameSuffixes :
                devils_advocate_result["vps_to_rerun"] = << p \o b \o s >>
                    => ResolvedKey = SpellingKey[b]
          /\ devils_advocate_result["vps_to_rerun"] = <<"Tech VP">> => ResolvedKey = "tech"
          /\ devils_advocate_result["vps_to_rerun"] = <<"tech">> => ResolvedKey = "tech"
          /\ devils_advocate_result["vps_to_rerun"] = <<"Technology">> => ResolvedKey = "tech"
          /\ devils_advocate_result["vps_to_rerun"] = <<"Operations VP">> => ResolvedKey = "ops"
          /\ devils_advocate_result["vps_to_rerun"] = <<"Product & UX VP">>
                => ResolvedKey = "product"
          /\ devils_advocate_result["vps_to_rerun"] = <<"Sales">> => ResolvedKey = ""
          /\ \A vp \in VPs :
                devils_advocate_result["vps_to_rerun"] = <<vp>> => ResolvedKey = vp

\* C13 witness: "Product & UX VP" was resolved to product
C13_Witness ==
    /\ devils_advocate_result["vps_to_rerun"] = <<"Product & UX VP">>
    /\ rerun_idx = 2
    /\ ResolvedKey = "product"

\* the first-round stage whose analyze was started and has not returned
PendingStages == (started \cap VPs) \ returned

\* C14: a specialist invocation raises only when its third consecutive
\* attempt has failed - never earlier, and there is no fourth attempt - and
\* then it has returned nothing: no report and no summary exists for it.
C14_RetryThenFail ==
    /\ attempt \in 0..3
    /\ pc \in VPs => attempt < 3
    /\ attempt = 3 => (pc = "aborted" /\ PendingStages # {})
    /\ (pc = "aborted" /\ PendingStages # {}) =>
          /\ attempt = 3
          /\ \A vp \in PendingStages :
                all_reports[vp] = None /\ all_summaries[vp] = None
    /\ pc = "aborted" => result = None

\* C14 witness: the Tech stage raised after three failed attempts
C14_Witness ==
    /\ pc = "aborted"
    /\ attempt = 3
    /\ PendingStages = {"tech"}
    /\ all_reports["tech"] = None

\* a step in which a clarification query used up the retry budget of its
\* specialist: the third attempt, and a failure record is what comes back
ClarificationExhausted ==
    /\ pc = "query"
    /\ attempt = 2
    /\ pc' = "resynthesize"
    /\ "error" \in DOMAIN all_summaries'[query_decision["vp_name"]]["clarification"]

\* a step in which a re-analysis used up the retry budget of its specialist:
\* the third attempt, the loop moves on and no report exists for the name
ReAnalysisExhausted ==
    /\ pc = "re_analyze"
    /\ attempt = 2
    /\ rerun_idx' = rerun_idx + 1
    /\ NormalizeVPName(VpsToRerun[rerun_idx]) \notin DOMAIN updated_reports'

\* a step in which a first-round stage used up its retry budget
StageExhausted == pc \in VPs /\ attempt = 2 /\ attempt' = 3

\* C15: whenever a specialist invocation uses up its retry budget - in a
\* first-round stage, in a clarification or in a re-analysis - the run
\* aborts in that step, so no result is ever returned after it.
C15_AbortOnExhaustion ==
    [][(StageExhausted \/ ClarificationExhausted \/ ReAnalysisExhausted)
          => pc' = "aborted"]_vars

\* C16: a returned result has the key devils_advocate exactly when the
\* Challenger was invoked in the run, and its value is then what the
\* Challenger returned.
C16_ChallengerOutput ==
    pc = "done" =>
        /\ "devils_advocate" \in DOMAIN result <=> challenge_calls = 1
        /\ challenge_calls = 0 => devils_advocate_result = None
        /\ challenge_calls = 1 =>
              /\ result["devils_advocate"] = devils_advocate_result
              /\ \E payload \in ChallengePayloads :
                    /\ \A k \in DOMAIN payload :
                          result["devils_advocate"][k] = payload[k]
                    /\ DOMAIN result["devils_advocate"] = DOMAIN payload \cup {"agent"}

\* C16 witness: a result that carries the output of a Challenger that asked
\* for no re-analysis
C16_Witness ==
    /\ pc = "done"
    /\ challenge_calls = 1
    /\ "devils_advocate" \in DOMAIN result
    /\ ~ result["devils_advocate"]["requires_re_analysis"]

\* the canonical key of each name of the mixed lists ("" for none)
MixedKey ==
    ("Sales" :> "") @@ ("Marketing" :> "") @@ ("ops" :> "ops") @@ ("tech" :> "tech")
    @@ ("Operations VP" :> "ops") @@ ("ux" :> "product") @@ ("market" :> "market")

\* C17: in a list that mixes unknown names with names of specialists, an
\* unknown name is passed over without raising and without a call, and every
\* name of a specialist that the loop has passed, before or after an unknown
\* one, was re-invoked.
C17_SkipUnknown ==
    devils_advocate_result["vps_to_rerun"] \in MixedNameLists =>
        LET list == devils_advocate_result["vps_to_rerun"]
        IN  /\ pc \in {"re_analyze", "synthesize"}
            /\ pc = "synthesize" => rerun_idx = Len(list) + 1
            /\ \A i \in 1..Len(list) :
                  (i < rerun_idx /\ MixedKey[list[i]] # "") => MixedKey[list[i]] \in ReInvoked
            /\ ReInvoked \subseteq {MixedKey[list[i]] : i \in 1..Len(list)} \ {""}

\* C17 witness: "Sales" stood between two names that were both re-analysed
C17_Witness ==
    /\ devils_advocate_result["vps_to_rerun"] = <<"Operations VP", "Sales", "ux">>
    /\ pc = "synthesize"
    /\ ReInvoked = {"ops", "product"}
    /\ DOMAIN updated_reports = {"ops", "product"}

\* C18: a decision call of the query loop never aborts the run: when the
\* call fails, the turn goes on as if it had answered should_query = false.
C18_DecisionFailureTolerated ==
    [][(pc = "ask" /\ decision_calls'[turn] = decision_calls[turn] + 1)
          => pc' \in {"query", "decide", "build_result"}]_vars

\* C19: whenever the call of a first-round stage returns a parsed payload,
\* conforming to the schema or not, no exception follows and run goes on to
\* the next stage with a summary of the payload.
C19_NonConformanceNonFatal ==
    [][(pc \in VPs /\ all_reports'[pc] # None)
          => /\ pc' \in (VPs \cup {"aggregate"}) \ {pc}
             /\ all_summaries'[pc] # None]_vars

\* the keys of the summary of each specialist: score, text, risks
ScoreKey == [vp \in VPs |-> vp \o "_score"]

TextKey ==
    [vp \in VPs |-> IF vp = "revenue" THEN "monetization_summary" ELSE vp \o "_summary"]

RisksKey ==
    ("market" :> "top_risks") @@ ("tech" :> "top_tech_risks")
    @@ ("revenue" :> "top_revenue_risks") @@ ("ops" :> "top_ops_risks")
    @@ ("product" :> "top_ux_risks")

\* the key of the report each summarize reads its risks from
ReportRisksKey == [vp \in VPs |-> IF vp = "market" THEN "risks" ELSE "top_risks"]

\* C20: a report that lacks score, summary, details or the risk list is
\* summarized without error, with score 0.0, the empty text and the empty
\* risk list for what is missing, and the aggregation over such summaries
\* yields the rounded mean of five numbers.
C20_MissingFieldDefaults ==
    /\ \A vp \in VPs :
          (all_reports[vp] # None /\ "score" \notin DOMAIN all_reports[vp]) =>
              /\ all_summaries[vp] # None
              /\ all_summaries[vp][ScoreKey[vp]] = 0
              /\ "summary" \notin DOMAIN all_reports[vp]
                    => all_summaries[vp][TextKey[vp]] = ""
              /\ ReportRisksKey[vp] \notin DOMAIN all_reports[vp]
                    => all_summaries[vp][RisksKey[vp]] = <<>>
    /\ \A vp \in VPs :
          (all_reports[vp] # None /\ DOMAIN all_reports[vp] = {"score", "agent"}) =>
              /\ all_summaries[vp] # None
              /\ all_summaries[vp][ScoreKey[vp]] = all_reports[vp]["score"]
              /\ all_summaries[vp][TextKey[vp]] = ""
              /\ all_summaries[vp][RisksKey[vp]] = <<>>
    /\ pc = "synthesize" =>
          /\ \A vp \in VPs : all_summaries[vp][ScoreKey[vp]] \in 0..1000
          /\ 5 * overall_score - DimensionTotal(all_summaries) \in -2..2

\* C20 witness: an aggregate over a Market report with no field at all and
\* a Tech report with a score only
C20_Witness ==
    /\ pc = "synthesize"
    /\ DOMAIN all_reports["market"] = {"agent"}
    /\ all_summaries["market"]["market_score"] = 0
    /\ all_summaries["market"]["top_risks"] = <<>>
    /\ DOMAIN all_reports["tech"] = {"score", "agent"}
    /\ overall_score > 0

\* C21: a parseable payload whose score is present but null is tolerated by
\* each of the five specialists: its summary exists with the score defaulted
\* to 0.0, and the run aborts for nothing but an exhausted retry budget.
C21_MalformedTolerated ==
    /\ \A vp \in VPs :
          (all_reports[vp] # None /\ Get(all_reports[vp], "score", 0) = JsonNull) =>
              /\ all_summaries[vp] # None
              /\ all_summaries[vp][ScoreKey[vp]] = 0
    /\ pc = "aborted" => attempt = MaxRetries

\* C22: a decision without a true should_query ends the query loop in the
\* step that receives it: the turn returns the synthesis it already holds,
\* and from then on the turn makes no decision call, no clarification query
\* and no synthesis call.
C22_StopAtFirstRefusal ==
    [][/\ (pc = "ask" /\ pc' # "aborted"
           /\ ~ Get(query_decision', "should_query", FALSE))
          => /\ pc' = "decide"
             /\ "synthesis" \in returned'
             /\ cos_report' = cos_report
             /\ synth_calls' = synth_calls
             /\ queries_run' = queries_run
       /\ (query_decision # None /\ ~ Get(query_decision, "should_query", FALSE))
          => /\ synth_calls'[turn] = synth_calls[turn]
             /\ decision_calls'[turn] = decision_calls[turn]
             /\ queries_run'[turn] = queries_run[turn]
             /\ turn' = turn => cos_report' = cos_report]_vars

\* C22 witness: a turn that ran one query returned on a refusal that named a
\* target, after two synthesis calls
C22_Witness ==
    /\ pc = "decide"
    /\ query_decision = [should_query |-> FALSE, vp_name |-> "tech",
                         question |-> "CLI or web UI first?", reason |-> "resolved already"]
    /\ queries_run[1] = 1
    /\ decision_calls[1] = 2
    /\ synth_calls[1] = 2

\* C23: a synthesize turn makes exactly one synthesis call more than it has
\* run queries, and at most two queries: one call before the loop and one
\* after each query, whatever the query returned.  The turn without a query
\* function makes one synthesis call, no decision call and no query.
C23_SynthesisCalls ==
    /\ \A t \in Turns :
          /\ queries_run[t] \in 0..2
          /\ t > turn => synth_calls[t] = 0
          /\ t <= turn =>
                IF t = turn /\ pc \in {"query", "resynthesize"}
                THEN synth_calls[t] \in {queries_run[t], queries_run[t] + 1}
                ELSE synth_calls[t] = 1 + queries_run[t]
    /\ turn = 2 =>
          /\ synth_calls[2] = 1
          /\ decision_calls[2] = 0
          /\ queries_run[2] = 0

\* C23 witness: a run whose first turn made three synthesis calls for two
\* queries and whose second turn made one
C23_Witness ==
    /\ pc = "done"
    /\ turn = 2
    /\ queries_run[1] = 2
    /\ synth_calls[1] = 3
    /\ synth_calls[2] = 1

\* C24: a clarification query that succeeded leaves the specialist's answer
\* in the clarification field of the queried specialist's summary before the
\* re-synthesis call is issued, and the prompt of that call states every
\* clarification the summaries hold; a decision call is made only when every
\* query run so far has been followed by its re-synthesis call, and a query
\* is run only after a decision call of its own.
C24_ClarificationBeforeResynthesis ==
    [][/\ (/\ pc = "query"
           /\ pc' = "resynthesize"
           /\ query_decision["vp_name"] \in VPs
           /\ "error" \notin DOMAIN all_summaries'[query_decision["vp_name"]]["clarification"])
          => \E p \in ClarPayloads :
                all_summaries'[query_decision["vp_name"]]["clarification"]
                    = p @@ ("agent" :> AgentName(query_decision["vp_name"]))
       /\ pc = "resynthesize"
          => /\ synth_calls'[turn] = synth_calls[turn] + 1
             /\ synth_prompt'["has_query_tool"]
             /\ query_decision["vp_name"] \in VPs
                   => "clarification" \in DOMAIN all_summaries[query_decision["vp_name"]]
             /\ \A vp \in VPs :
                   "clarification" \in DOMAIN all_summaries[vp]
                      => /\ "Clarification" \in DOMAIN synth_prompt'["vp_summaries"][vp]
                         /\ synth_prompt'["vp_summaries"][vp]["Clarification"]
                               = all_summaries[vp]["clarification"]
       /\ decision_calls' # decision_calls
          => /\ pc = "ask"
             /\ synth_calls[turn] = queries_run[turn] + 1
       /\ queries_run' # queries_run
          => /\ pc = "query"
             /\ decision_calls[turn] = queries_run[turn] + 1
             /\ synth_calls[turn] = queries_run[turn] + 1]_vars

\* C24 witness: the turn has returned after a re-synthesis call whose prompt
\* stated the answer of the Tech specialist to a clarification query
C24_Witness ==
    /\ pc = "decide"
    /\ synth_prompt # None
    /\ synth_prompt["has_query_tool"]
    /\ "Clarification" \in DOMAIN synth_prompt["vp_summaries"]["tech"]
    /\ synth_prompt["vp_summaries"]["tech"]["Clarification"]
          = [summary |-> "Clarified: web UI after the CLI", score |-> 900,
             agent |-> "VP of Engineering"]

\* C25: the step in which the call of a stage returns a payload is call
\* number k = attempt + 1 <= 3 of the invocation, after k - 1 failed calls
\* made with the same context; the report is the payload of that very call,
\* with the agent identity added when the payload gives none, and the run
\* goes on to the next stage as after a first-call success.
C25_RetryThenSucceed ==
    [][/\ (pc \in VPs /\ all_reports'[pc] # None)
          => /\ attempt + 1 \in 1..3
             /\ \E p \in CallPayloads(attempt) :
                   all_reports'[pc] = IF "agent" \in DOMAIN p
                                      THEN p
                                      ELSE p @@ ("agent" :> AgentName(pc))
             /\ all_summaries'[pc] # None
             /\ pc' \in (VPs \cup {"aggregate"}) \ {pc}
             /\ attempt' = 0
       /\ (pc \in VPs /\ attempt > 0)
          => stage_ctx'[pc] = stage_ctx[pc]
       /\ (pc \in VPs /\ all_reports'[pc] = None)
          => attempt' = attempt + 1]_vars

\* C25 witness: Market's third call was the first to succeed and Product's
\* first call succeeded with an identity of its own; Tech is next
C25_Witness ==
    /\ pc = "tech"
    /\ all_reports["market"] =
          [score |-> 700, summary |-> "Answer to call 3", agent |-> "VP of Market & Strategy"]
    /\ all_reports["product"] =
          [score |-> 600, summary |-> "Answer to call 1", agent |-> "Guest analyst"]

\* C26: a failure of an external call - a specialist's, a synthesis call, a
\* query-decision call or the Challenger's call - is fatal only when the
\* call has failed three times in a row: a run never aborts before the third
\* failed attempt.
C26_EveryCallRetried ==
    pc = "aborted" => attempt = MaxRetries

\* C27: every request fits the mode of its invocation.  A clarification
\* request states the question and the specialist's original report, a
\* re-analysis request states the Challenger's guidance and the previous
\* report, and neither is the request the specialist was sent in the first
\* round.
C27_RequestFitsMode ==
    /\ \A i \in 1..Len(clar_log) :
          LET e == clar_log[i]
          IN  /\ {"question", "original_report"} \subseteq DOMAIN e.request
              /\ e.request["question"] = e.context["question"]
              /\ e.request["original_report"] = e.context["original_report"]
              /\ e.request # StageRequest(e.vp, stage_ctx[e.vp])
    /\ \A i \in 1..Len(rerun_log) :
          LET e == rerun_log[i]
          IN  /\ {"guidance", "previous_report"} \subseteq DOMAIN e.request
              /\ e.request["guidance"] = e.context["devils_advocate_guidance"]
              /\ e.request["previous_report"] = e.context["previous_report"]
              /\ e.request # StageRequest(e.vp, stage_ctx[e.vp])

\* C28: the prompt of every synthesis call states, for each of the five
\* specialists, the score, the decision label and the summary text of its
\* summary and, when the summary has risks, the first two of them.
C28_SynthesisContext ==
    (synth_prompt # None /\ pc # "synthesize") =>
        \A vp \in VPs :
            LET section == synth_prompt["vp_summaries"][vp]
                summary == all_summaries[vp]
            IN  /\ "Score" \in DOMAIN section
                /\ section["Score"] = summary[ScoreKey[vp]]
                /\ "Decision" \in DOMAIN section
                /\ section["Decision"] = summary[vp \o "_decision"]
                /\ "Summary" \in DOMAIN section
                /\ section["Summary"] = summary[TextKey[vp]]
                /\ summary[RisksKey[vp]] # <<>> =>
                      /\ "Top Risks" \in DOMAIN section
                      /\ section["Top Risks"] = Take(summary[RisksKey[vp]], 2)

\* the score-spread signals the conflict detector emits for the summaries
SpreadSignals ==
    LET conflicts == DetectConflicts(all_summaries)
    IN  {conflicts[i] : i \in {j \in 1..Len(conflicts) : conflicts[j].kind = "score_spread"}}

\* C29: for every five summaries, a score of 0 included, the conflict
\* detector emits a score-spread signal exactly when the spread the
\* Coordinator computed - max minus min of the five scores - exceeds 3.0,
\* and the signal names a specialist with the highest and one with the
\* lowest of the five scores.
C29_SpreadSignal ==
    pc = "synthesize" =>
        /\ SpreadSignals # {} <=> score_variance > 300
        /\ \A s \in SpreadSignals :
              /\ s.max_score - s.min_score = score_variance
              /\ all_summaries[s.max_vp][ScoreKey[s.max_vp]] = s.max_score
              /\ all_summaries[s.min_vp][ScoreKey[s.min_vp]] = s.min_score
              /\ \A vp \in VPs :
                    /\ all_summaries[vp][ScoreKey[vp]] <= s.max_score
                    /\ all_summaries[vp][ScoreKey[vp]] >= s.min_score

\* the key of the decision label in the summary of each specialist
DecisionKey == [vp \in VPs |-> vp \o "_decision"]

\* the label of each specialist for a score of at least 8, of at least 6, of
\* at least 4, and below 4
DecisionLabels ==
    ("market" :> << "Strong bootstrap opportunity - Clear path to profitability",
                    "Viable with hustle - Bootstrappable but requires execution",
                    "Challenging - Requires pivots or additional resources",
                    "Not bootstrappable - Consider alternative approaches" >>)
    @@ ("tech" :> << "Ship this fast - MVP achievable in timeline",
                     "Shippable with focus - Ruthless scope cuts needed",
                     "Challenging but possible - Significant scope reduction required",
                     "Difficult to ship quickly - Consider simpler MVP or longer timeline" >>)
    @@ ("revenue" :> << "Strong bootstrap revenue model - Clear path to profitability",
                        "Solid monetization potential - Requires validation and execution",
                        "Challenging revenue model - Significant validation needed",
                        "Weak monetization path - Rethink pricing or business model" >>)
    @@ ("ops" :> << "Operationally simple - Solo founder can sustain long-term",
                    "Manageable operations - Some burden but sustainable",
                    "Challenging operations - May need help or significant automation",
                    "Operationally complex - Difficult to run solo" >>)
    @@ ("product" :> << "Strong product-market fit potential - Users will love this",
                        "Good validation readiness - Solid UX foundation",
                        "Needs UX improvements - Functional but risky",
                        "UX concerns - May struggle with adoption" >>)

\* the summary carries the score of the report and the label of its tier
ScoreAndLabel(vp, report, summary) ==
    /\ summary[ScoreKey[vp]] = report.score
    /\ report.score >= 800 => summary[DecisionKey[vp]] = DecisionLabels[vp][1]
    /\ (report.score >= 600 /\ report.score < 800)
          => summary[DecisionKey[vp]] = DecisionLabels[vp][2]
    /\ (report.score >= 400 /\ report.score < 600)
          => summary[DecisionKey[vp]] = DecisionLabels[vp][3]
    /\ report.score < 400 => summary[DecisionKey[vp]] = DecisionLabels[vp][4]

\* seq is the first n entries of list, for some n of at most 3
PrefixOfAtMost3(seq, list) ==
    \E n \in 0..3 : n <= Len(list) /\ seq = SubSeq(list, 1, n)

\* the UX risks of a Product report, the empty list when it has none
UxRisksOf(report) ==
    IF "pmf_readiness" \in DOMAIN report.details
    THEN report.details.pmf_readiness.ux_risks
    ELSE <<>>

\* C30 (as stated): the summary of every specialist carries the score of the
\* report and the label of its tier, and its risk list is a prefix of at most
\* 3 entries of the risk list of the report.
C30_SummaryOfReport ==
    \A vp \in VPs :
       /\ ScoreAndLabel(vp, all_reports[vp], all_summaries[vp])
       /\ PrefixOfAtMost3(all_summaries[vp][RisksKey[vp]],
                          all_reports[vp][ReportRisksKey[vp]])

\* C30 (amended): the summary of every specialist carries the score of the
\* report and the label of its tier (at least 8, at least 6, at least 4,
\* below 4); its risk list is the first 3 entries (all of them when there are
\* fewer) of the risk list of the report, which for Product is the UX risks
\* of its PMF readiness followed by its top risks; the new report of a
\* re-analysed specialist is stored as it was returned.
C30_SummaryOfReportAmended ==
    \A vp \in VPs :
       /\ ScoreAndLabel(vp, all_reports[vp], all_summaries[vp])
       /\ LET list == IF vp = "product"
                      THEN UxRisksOf(all_reports[vp]) \o all_reports[vp].top_risks
                      ELSE all_reports[vp][ReportRisksKey[vp]]
              risks == all_summaries[vp][RisksKey[vp]]
          IN  /\ PrefixOfAtMost3(risks, list)
              /\ Len(risks) = IF Len(list) < 3 THEN Len(list) ELSE 3
       /\ (pc = "synthesize" /\ vp \in DOMAIN updated_reports)
             => all_reports[vp] = updated_reports[vp]

\* a re-analysed Product report scored exactly 8.0, with two UX risks and one
\* top risk, has been summarized
C30_Witness ==
    /\ pc = "synthesize"
    /\ "product" \in DOMAIN updated_reports
    /\ all_reports["product"].score = 800
    /\ all_reports["product"] # before_reports["product"]
    /\ all_summaries["product"]["product_decision"]
          = "Strong product-market fit potential - Users will love this"
    /\ all_summaries["product"]["top_ux_risks"]
          = << "ux risk a", "ux risk b", "top risk a" >>

\* a summary without its clarification field
WithoutClarification(summary) ==
    [k \in DOMAIN summary \ {"clarification"} |-> summary[k]]

\* the positions of run inside a call of ChiefOfStaff.synthesize
InSynthesizerTurn == pc \in {"synthesize", "ask", "query", "resynthesize"}

\* C31: a step of a Synthesizer turn leaves every report and the overall
\* score and decision as they are, leaves every field of every summary other
\* than `clarification` as it is, and changes a summary at all only while
\* executing a query, and then only the summary of the specialist the query
\* decision names.
C31_TurnFrame ==
    [][InSynthesizerTurn
          => /\ all_reports' = all_reports
             /\ overall_score' = overall_score
             /\ overall_decision' = overall_decision
             /\ score_variance' = score_variance
             /\ \A vp \in VPs :
                   /\ WithoutClarification(all_summaries'[vp])
                         = WithoutClarification(all_summaries[vp])
                   /\ all_summaries'[vp] # all_summaries[vp]
                         => /\ pc = "query"
                            /\ query_decision["vp_name"] = vp
                            /\ DOMAIN all_summaries'[vp]
                                  = DOMAIN all_summaries[vp] \cup {"clarification"}]_vars

\* a turn has ended after two queries, of Tech and of Product: both summaries
\* carry a clarification and the summary of Market carries none
C31_Witness ==
    /\ pc = "decide"
    /\ queries_run[1] = 2
    /\ "clarification" \in DOMAIN all_summaries["tech"]
    /\ "clarification" \in DOMAIN all_summaries["product"]
    /\ "clarification" \notin DOMAIN all_summaries["market"]

\* run has returned its result, or has ended with an exception
Terminated == pc \in {"done", "aborted"}

\* the external calls made so far are within their bounds: the running
\* specialist invocation has made at most 3 (`attempt` counts its failed
\* calls), each Synthesizer turn at most 2
\* decision calls, 2 queries and 3 synthesis calls; there are at most 2
\* turns, 1 Challenger call and 1 evaluation of the trigger
CallBounds ==
    /\ attempt \in 0..3
    /\ turn \in 0..2
    /\ \A t \in Turns : /\ decision_calls[t] <= 2
                        /\ queries_run[t] <= 2
                        /\ synth_calls[t] <= 3
    /\ synth_calls[2] <= 1 /\ decision_calls[2] = 0 /\ queries_run[2] = 0
    /\ challenge_calls <= 1
    /\ trigger_evals <= 1
    /\ Len(clar_log) <= 2
    /\ Len(rerun_log) <= Len(VpsToRerun)

\* C32: whatever the collaborator answers, the external calls stay within
\* their bounds and run ends, with its result or with an exception.
C32_Terminates == []CallBounds /\ <>Terminated

\* run has returned after a turn with 2 decision calls, 2 queries and 3
\* synthesis calls, one Challenger call and a re-analysis round
C32_Witness ==
    /\ pc = "done"
    /\ decision_calls[1] = 2 /\ queries_run[1] = 2 /\ synth_calls[1] = 3
    /\ challenge_calls = 1
    /\ synth_calls[2] = 1
    /\ Len(rerun_log) >= 1

\* the re-analysis invocations of a specialist made so far
ReInvocations(vp) == {i \in 1..Len(rerun_log) : rerun_log[i].vp = vp}

\* C33: in a re-analysis round each specialist is re-invoked at most once,
\* however often and under whatever spellings vps_to_rerun names it.
C33_ReInvokedOnce ==
    \A vp \in VPs : Cardinality(ReInvocations(vp)) <= 1

\* a re-invocation of vp has failed in the running round: the loop of
\* _re_analyze_vps has moved past a name of vp and holds no new report for it
ReInvocationFailed(vp) ==
    /\ pc = "re_analyze"
    /\ vp \notin DOMAIN updated_reports
    /\ \E j \in 1..(rerun_idx - 1) :
          /\ j <= Len(VpsToRerun)
          /\ NormalizeVPName(VpsToRerun[j]) = vp

\* C34: once a re-invocation of a specialist has failed, run is not aborted,
\* the loop goes on through the other names to the re-aggregation, and that
\* specialist's report and summary are not replaced: the round records no
\* new report for it, and the re-aggregation leaves its report and summary
\* as they were before the round.
C34_FailedReInvocationKept ==
    [][\A vp \in VPs :
          ReInvocationFailed(vp)
             => /\ pc' \in {"re_analyze", "synthesize"}
                /\ pc' = "re_analyze" => rerun_idx' >= rerun_idx
                /\ vp \notin DOMAIN updated_reports'
                /\ all_reports'[vp] = before_reports[vp]
                /\ all_summaries'[vp] = before_summaries[vp]]_vars

\* C35: a query whose decision names no canonical key makes no specialist
\* call and leaves every summary as it is; it is followed by one more
\* synthesis call, after which it counts as one query of the turn.
C35_UnknownQueryName ==
    [][/\ (pc = "query" /\ query_decision["vp_name"] \notin VPs)
             => /\ clar_log' = clar_log
                /\ attempt' = attempt
                /\ all_summaries' = all_summaries
                /\ queries_run'[turn] = queries_run[turn] + 1
                /\ pc' = "resynthesize"
       /\ (pc = "resynthesize" /\ query_decision["vp_name"] \notin VPs)
             => /\ synth_calls'[turn] = synth_calls[turn] + 1
                /\ pc' # "aborted" => queries_made' = queries_made + 1]_vars

\* a turn has ended at the cap after two queries of 'Tech VP': no specialist
\* was called, no summary carries a clarification, and three synthesis calls
\* were made
C35_Witness ==
    /\ pc = "decide"
    /\ Get(query_decision, "vp_name", "") = "Tech VP"
    /\ queries_made = 2
    /\ queries_run[1] = 2
    /\ synth_calls[1] = 3
    /\ clar_log = <<>>
    /\ \A vp \in VPs : "clarification" \notin DOMAIN all_summaries[vp]

\* the error record query_vp returns when the call of a specialist raised
ErrorRecord(vp) == [error |-> "Failed to query " \o vp]

\* the summary of vp in sums carries that error record as its clarification
HoldsError(sums, vp) ==
    /\ sums # None
    /\ sums[vp] # None
    /\ Get(sums[vp], "clarification", None) = ErrorRecord(vp)

\* a query of vp never aborts the turn: it is retried or followed by the
\* re-synthesis, with the clarification of vp set to an answer of the
\* specialist or, on the third attempt only, to the error record
QueryNeverAborts(vp) ==
    (pc = "query" /\ query_decision["vp_name"] = vp)
       => /\ pc' \in {"query", "resynthesize"}
          /\ pc' = "query" => attempt' = attempt + 1
          /\ pc' = "resynthesize"
                => /\ "clarification" \in DOMAIN all_summaries'[vp]
                   /\ \/ "agent" \in DOMAIN all_summaries'[vp]["clarification"]
                      \/ attempt = 2 /\ HoldsError(all_summaries', vp)

\* the error record is in the prompt of the next synthesis call
ErrorFedToSynthesis(vp) ==
    (pc = "resynthesize" /\ HoldsError(all_summaries, vp))
       => synth_prompt'["vp_summaries"][vp]["Clarification"] = ErrorRecord(vp)

\* the summaries, as they are, go to the Challenger and into the result
SummariesHandedOn ==
    /\ (pc = "challenge" /\ pc' # "aborted") => before_summaries' = all_summaries
    /\ pc = "build_result"
          => result'["counsel_summary"]["by_dimension"] = all_summaries

\* C36 (as stated): a failed clarification call does not abort the turn; its
\* error record is stored as the clarification of the specialist, is fed
\* into the next synthesis call, and remains there: no step removes it from
\* the summaries, which go to the Challenger and into the result.
C36_ErrorRecordRemains ==
    [][/\ \A vp \in VPs :
             /\ QueryNeverAborts(vp)
             /\ ErrorFedToSynthesis(vp)
             /\ HoldsError(all_summaries, vp) => HoldsError(all_summaries', vp)
       /\ SummariesHandedOn]_vars

\* C36 (amended): a failed clarification call does not abort the turn; its
\* error record is stored as the clarification of the specialist and is fed
\* into the next synthesis call; it stays in the summaries, which go to the
\* Challenger and into the result, unless a later query of the same
\* specialist or the re-analysis of that specialist replaces it.
C36_ErrorRecordKept ==
    [][/\ \A vp \in VPs :
             /\ QueryNeverAborts(vp)
             /\ ErrorFedToSynthesis(vp)
             /\ (HoldsError(all_summaries, vp) /\ ~ HoldsError(all_summaries', vp))
                   => \/ pc = "query" /\ query_decision["vp_name"] = vp
                      \/ /\ pc = "re_analyze" /\ pc' = "synthesize"
                         /\ vp \in DOMAIN updated_reports
       /\ SummariesHandedOn]_vars

\* run has returned a result that carries the error record of a failed query
\* of Tech, which the Challenger was given too
C36_Witness ==
    /\ pc = "done"
    /\ challenge_calls = 1
    /\ HoldsError(before_summaries, "tech")
    /\ HoldsError(result["counsel_summary"]["by_dimension"], "tech")

(***************************************************************************)
(* C37: the conflict detector within one Synthesizer turn                  *)
(***************************************************************************)

\* what _detect_conflicts reads of the summaries: the two summary texts and
\* the score of each specialist
DetectorInputs(sums) ==
    [tech_summary    |-> Get(Get(sums, "tech", EmptyDict), "tech_summary", ""),
     product_summary |-> Get(Get(sums, "product", EmptyDict), "product_summary", ""),
     scores          |-> [vp \in VPs |-> Get(Get(sums, vp, EmptyDict), vp \o "_score", 0)]]

\* a step of the query loop of a Synthesizer turn
InQueryLoop == pc \in {"ask", "query", "resynthesize"}

\* C37: within one Synthesizer turn no step of the query loop changes the
\* summary texts and scores the conflict detector reads; so at every
\* decision step after a query the detector signals a conflict again and
\* the external decision call is made, and the loop, if it is left without
\* an aborted call, is left only on a refusing decision answer or at the
\* cap of MaxQueries queries
C37_DetectorStable ==
    [][InQueryLoop =>
          /\ DetectorInputs(all_summaries') = DetectorInputs(all_summaries)
          /\ (pc = "ask" /\ queries_made > 0)
                => decision_calls'[turn] = decision_calls[turn] + 1
          /\ (pc = "ask" /\ queries_made > 0 /\ pc' \notin {"query", "aborted"})
                => LoopBreaks(query_decision')
          /\ (pc = "query") => pc' \in {"query", "resynthesize"}
          /\ (pc = "resynthesize" /\ pc' \notin {"ask", "aborted"})
                => queries_made' = MaxQueries]_vars

\* a second decision step is reached after a successful clarification of a
\* known specialist was stored
C37_Witness ==
    /\ pc = "ask"
    /\ queries_made = 1
    /\ \E vp \in VPs :
          /\ "clarification" \in DOMAIN all_summaries[vp]
          /\ "error" \notin DOMAIN all_summaries[vp]["clarification"]

(***************************************************************************)
(* C38: reports and summaries stay in step                                 *)
(***************************************************************************)

\* the aggregation has run: the overall score is set
Aggregated == overall_score # -1

\* each summary of sums, without its clarification, is the summary of the
\* report of the same specialist in reports
InStep(reports, sums) ==
    \A vp \in VPs : WithoutClarification(sums[vp]) = Summarize(vp, reports[vp])

\* the update that follows _re_analyze_vps has been made
ReAnalysisApplied ==
    /\ before_reports # None
    /\ pc \in {"synthesize", "build_result", "done"}

\* C38: from the aggregation on, the stored summary of each of the five
\* specialists, ignoring its clarification field, is summarize of the stored
\* report of that specialist, in the state of run and in the returned
\* result; and after the re-analysis round a re-run specialist holds the new
\* report together with the summary of that new report
C38_ReportsAndSummariesInStep ==
    Aggregated =>
        /\ InStep(all_reports, all_summaries)
        /\ result # None
              => InStep(result["reports"], result["counsel_summary"]["by_dimension"])
        /\ ReAnalysisApplied
              => \A vp \in DOMAIN updated_reports :
                    /\ all_reports[vp] = updated_reports[vp]
                    /\ all_summaries[vp] = Summarize(vp, updated_reports[vp])

\* a result was returned after a re-analysis round that changed the report
\* of one specialist while another specialist still holds a clarification
C38_Witness ==
    /\ pc = "done"
    /\ result # None
    /\ before_reports # None
    /\ \E vp \in DOMAIN updated_reports : all_reports[vp] # before_reports[vp]
    /\ \E vp \in VPs : "clarification" \in DOMAIN all_summaries[vp]

====
